---- MODULE Spec2Model ----
(***************************************************************************)
(* domainlooker: the orchestration and aggregation engine.                 *)
(*                                                                         *)
(*   DomainInspector.investigate          single-domain entry point        *)
(*   DomainInspector.investigateMultiple  batch scheduler                  *)
(*   DomainInspector.investigateSingle    per-domain orchestration (batch) *)
(*   DomainInspector.gather*Intelligence  the source wrappers              *)
(*   CSVExportService / JsonExportService / PricingExportService  sinks    *)
(*                                                                         *)
(* JavaScript runs an async function synchronously up to its next await,   *)
(* so every action below is one such run-to-completion segment.            *)
(***************************************************************************)
EXTENDS Integers, Sequences, FiniteSets, TLC

VARIABLES
    mode,           \* "single": investigate(domain); "batch": investigateMultiple(domains, parallelLimit)
    options,        \* InspectionOptions: quick, subdomains, checkPricing, exportCsv, exportJson
    domains,        \* the domain list handed to the entry point
    parallelLimit,  \* investigateMultiple's parallelLimit
    i,              \* the batch loop's index variable (0-based)
    mainPc,         \* position of the entry point: init, await, delay, csvWrite, ..., done, rejected
    runStatus,      \* state of the promise the entry point returned
    batches,        \* history: the slices the batch loop has dispatched, in order
    delays,         \* history: number of pacing delays started
    dstate,         \* per domain: position of its orchestration
    dpromise,       \* per domain: state of the promise its orchestration returned
    promises,       \* per domain: intelligencePromises, then results of Promise.allSettled
    outcome,        \* per domain and source: what the underlying service call did
    info,           \* per domain: the DomainInfo report
    csvData,        \* CSVExportService.csvData (<< >> when no exporter was constructed)
    jsonData,       \* JsonExportService's collection
    pricingData,    \* PricingExportService.pricingData
    files,          \* history: the successful file writes, in order
    exportFailed,   \* history: some export write has failed
    faults,         \* number of faults the environment has injected so far
    faultCap,       \* the environment's fault budget for this run
    quotes,         \* the DomainPricing[] handed to the pricing analysis
    analysis,       \* last result of PricingExportService.analyzePricing
    csvPricing,     \* last result of CSVExportService.processPricingData
    analyses,       \* number of analyses run on the quote list
    report,         \* the DomainInfo handed to the threat assessment
    threats,        \* last result of CSVExportService.assessThreats
    threatLevel,    \* last result of CSVExportService.getThreatLevel
    displayed,      \* last pricing recommendation generateIntelligenceReport showed
    field,          \* the value handed to escapeCSV
    escaped,        \* last result of escapeCSV
    flagged,        \* last list of threats displayThreatAssessment showed
    probe,          \* what the availability lookups answer for the domain
    pricingResults, \* DomainPricingService: pricingPromises, then their settled results
    availability    \* the DomainAvailabilityResult of checkAvailabilityAndPricing

\* the state of the orchestration and of the batch scheduler
orchVars == << mode, options, domains, parallelLimit, i, mainPc, runStatus, batches,
               delays, dstate, dpromise, promises, outcome, info, csvData, jsonData,
               pricingData, files, exportFailed, faults, faultCap >>

\* the state of the derived analytics (pricing analysis, threat assessment)
pricingVars == << quotes, analysis, csvPricing, analyses, displayed >>
threatVars == << report, threats, threatLevel, flagged >>
escapeVars == << field, escaped >>
availVars == << probe, pricingResults, availability >>
pureVars == << pricingVars, threatVars, escapeVars, availVars >>

vars == << orchVars, pureVars >>

-----------------------------------------------------------------------------
(* Bounds *)

\* longest domain list of the scheduler specification
MaxDomains == 3
\* largest parallelLimit of the scheduler specification
MaxLimit == 2
\* fault budget of the scheduler specification
MaxFaults == 1

-----------------------------------------------------------------------------
(* Values *)

Min(a, b) == IF a < b THEN a ELSE b

\* the report slots / sources, in the order the promise list is built
Sources == << "whois", "dns", "ssl", "network", "subdomains", "pricing" >>
SourceSet == { Sources[k] : k \in 1..Len(Sources) }

\* a slot that was never assigned (the optional property is missing)
Undefined == [tag |-> "undefined"]
\* JavaScript null
Null == [tag |-> "null"]
\* the value the service of source s resolves with for domain d
Present(s, d) == [tag |-> "value", src |-> s, dom |-> d]

\* the causes a service call can fail with
FaultCauses == { "timeout", "transport" }

NoOutcome == [kind |-> "none"]
ValueOutcome(s, d) == [kind |-> "value", value |-> Present(s, d)]
FaultOutcome(c) == [kind |-> "fault", cause |-> c]

\* JavaScript truthiness of a slot value
Truthy(v) == v.tag = "value"

EmptyInfo == [s \in SourceSet |-> Undefined]

Header == [kind |-> "header"]

-----------------------------------------------------------------------------
(* The source wrappers: try { return await service(domain) } catch { return null } *)

GatherPlaceholder(s, d, oc) ==
    IF oc.kind = "value"
    THEN [src |-> s, status |-> "fulfilled", value |-> oc.value]
    ELSE [src |-> s, status |-> "fulfilled", value |-> [tag |-> "value", src |-> s, dom |-> d, placeholder |-> TRUE]]

Gather(s, d, oc) ==
    IF oc.kind = "value"
    THEN [src |-> s, status |-> "fulfilled", value |-> oc.value]
    ELSE [src |-> s, status |-> "fulfilled", value |-> Null]

Pending(s) == [src |-> s, status |-> "pending", value |-> Undefined]

-----------------------------------------------------------------------------
(* Fan-out: the promise lists *)

\* the sources the run configuration marks active
Active(opt) ==
    { "whois", "dns", "ssl" }
        \cup (IF opt.quick THEN {} ELSE { "network" })
        \cup (IF opt.subdomains THEN { "subdomains" } ELSE {})
        \cup (IF opt.checkPricing THEN { "pricing" } ELSE {})

\* a promise list that starts the port scan whatever the quick flag says
InvestigatePromisesWithScan(opt) ==
    << "whois", "dns", "ssl", "network" >>
        \o (IF opt.subdomains THEN << "subdomains" >> ELSE << >>)
        \o (IF opt.checkPricing THEN << "pricing" >> ELSE << >>)

\* investigate: intelligencePromises
InvestigatePromises(opt) ==
    << "whois", "dns", "ssl" >>
        \o (IF opt.quick THEN << >> ELSE << "network" >>)
        \o (IF opt.subdomains THEN << "subdomains" >> ELSE << >>)
        \o (IF opt.checkPricing THEN << "pricing" >> ELSE << >>)

\* investigateSingle: intelligencePromises
InvestigateSinglePromises(opt) ==
    << "whois", "dns", "ssl" >>
        \o (IF opt.quick THEN << >> ELSE << "network" >>)
        \o (IF opt.subdomains THEN << "subdomains" >> ELSE << >>)

PromisesOf(m, opt) ==
    IF m = "single" THEN InvestigatePromises(opt) ELSE InvestigateSinglePromises(opt)

Dispatch(m, opt) ==
    [k \in 1..Len(PromisesOf(m, opt)) |-> Pending(PromisesOf(m, opt)[k])]

-----------------------------------------------------------------------------
(* Fan-in: results[resultIndex].status === 'fulfilled' ? value : null *)

\* a fan-in that reads position idx of the usable results only
ResultValueCompacted(results, idx) ==
    LET usable == SelectSeq(results, LAMBDA r : r.status = "fulfilled" /\ r.value # Null) IN
    IF idx \in 1..Len(usable) THEN usable[idx].value ELSE Null

ResultValue(results, idx) ==
    IF idx \in 1..Len(results)
    THEN (IF results[idx].status = "fulfilled" THEN results[idx].value ELSE Null)
    ELSE Undefined

\* resultIndex when the subdomains slot is read (1-based)
SubdomainsIndexStuck(opt) == 4

SubdomainsIndex(opt) == IF opt.quick THEN 4 ELSE 5

\* resultIndex when the pricing slot is read (1-based)
PricingIndex(opt) == SubdomainsIndex(opt) + (IF opt.subdomains THEN 1 ELSE 0)

\* investigateSingle, lines 126-143
FanInSingle(results, opt) ==
    [s \in SourceSet |->
        CASE s = "whois" -> ResultValue(results, 1)
          [] s = "dns" -> ResultValue(results, 2)
          [] s = "ssl" -> ResultValue(results, 3)
          [] s = "network" ->
                IF opt.quick THEN Undefined ELSE ResultValue(results, 4)
          [] s = "subdomains" ->
                IF opt.subdomains THEN ResultValue(results, SubdomainsIndex(opt)) ELSE Undefined
          [] OTHER -> Undefined]

\* investigate, lines 204-226
FanInInvestigate(results, opt) ==
    [s \in SourceSet |->
        CASE s = "whois" -> ResultValue(results, 1)
          [] s = "dns" -> ResultValue(results, 2)
          [] s = "ssl" -> ResultValue(results, 3)
          [] s = "network" ->
                IF opt.quick THEN Undefined ELSE ResultValue(results, 4)
          [] s = "subdomains" ->
                IF opt.subdomains THEN ResultValue(results, SubdomainsIndex(opt)) ELSE Undefined
          [] OTHER ->
                IF opt.checkPricing THEN ResultValue(results, PricingIndex(opt)) ELSE Undefined]

FanIn(m, results, opt) ==
    IF m = "single" THEN FanInInvestigate(results, opt) ELSE FanInSingle(results, opt)

-----------------------------------------------------------------------------
(* Export sinks *)

\* CSVExportService constructor: csvData starts with the header row
NewCsvData(opt) == IF opt.exportCsv THEN << Header >> ELSE << >>

\* an addDomain that puts the row at the front of the collection
CsvAddDomainFirst(data, d, inf) == << [kind |-> "row", domain |-> d, report |-> inf] >> \o data

\* CSVExportService.addDomain: one row built from the report, pushed at the end
CsvAddDomain(data, d, inf) == Append(data, [kind |-> "row", domain |-> d, report |-> inf])

\* JsonExportService.addDomain
JsonAddDomain(data, d, inf) == Append(data, [domain |-> d, report |-> inf])

\* PricingExportService.addDomain
PricingAddDomain(data, pricing) == Append(data, pricing)

\* CSVExportService.getRowCount
GetRowCount(data) == Len(data) - 1

\* PricingExportService.getDataCount
GetDataCount(data) == Len(data)

\* the content a sink writes when asked to export
SinkContent(stage) ==
    CASE stage = "csvWrite" -> csvData
      [] stage = "jsonWrite" -> jsonData
      [] OTHER -> pricingData

WriteStages == { "csvWrite", "jsonWrite", "pricingCsvWrite", "pricingJsonWrite" }

-----------------------------------------------------------------------------
(* The environment: faults it may inject *)

CanFault == faults < faultCap

\* the outcomes the service of source s may produce for domain d
Outcomes(s, d) ==
    { ValueOutcome(s, d) } \cup (IF CanFault THEN { FaultOutcome(c) : c \in FaultCauses } ELSE {})

\* the two ways an operation that can throw may end
Endings == { TRUE } \cup (IF CanFault THEN { FALSE } ELSE {})

Bump(ok) == IF ok THEN faults ELSE faults + 1

-----------------------------------------------------------------------------
(* Initial states *)

DomainList(n) == [k \in 1..n |-> k]

OptionSets ==
    [quick : BOOLEAN, subdomains : BOOLEAN, checkPricing : BOOLEAN,
     exportCsv : BOOLEAN, exportJson : BOOLEAN]

InitCommon ==
    /\ i = 0
    /\ mainPc = "init"
    /\ runStatus = "pending"
    /\ batches = << >>
    /\ delays = 0
    /\ dstate = [d \in 1..Len(domains) |-> "idle"]
    /\ dpromise = [d \in 1..Len(domains) |-> "none"]
    /\ promises = [d \in 1..Len(domains) |-> << >>]
    /\ outcome = [d \in 1..Len(domains) |-> [s \in SourceSet |-> NoOutcome]]
    /\ info = [d \in 1..Len(domains) |-> EmptyInfo]
    /\ csvData = NewCsvData(options)
    /\ jsonData = << >>
    /\ pricingData = << >>
    /\ files = << >>
    /\ exportFailed = FALSE
    /\ faults = 0

\* no analysis requested: the derived analytics hold nothing
NotRun == [tag |-> "notRun"]

PricingIdle ==
    /\ quotes = << >>
    /\ analysis = NotRun
    /\ csvPricing = NotRun
    /\ analyses = 0
    /\ displayed = NotRun

ThreatIdle ==
    /\ report = NotRun
    /\ threats = << >>
    /\ threatLevel = "none"
    /\ flagged = NotRun

EscapeIdle ==
    /\ field = << >>
    /\ escaped = NotRun

AvailIdle ==
    /\ probe = NotRun
    /\ pricingResults = << >>
    /\ availability = NotRun

PureIdle == PricingIdle /\ ThreatIdle /\ EscapeIdle /\ AvailIdle

\* every fault point of a run: each source of each domain, each rendering, each export write
AllFaultPoints(n) == n * (Len(Sources) + 1) + Cardinality(WriteStages)

\* the orchestration specification: one domain through either entry point,
\* every configuration, every combination of source outcomes
Init ==
    /\ options \in OptionSets
    /\ mode \in { "single", "batch" }
    /\ domains = DomainList(1)
    /\ parallelLimit = 1
    /\ faultCap = AllFaultPoints(Len(domains))
    /\ InitCommon
    /\ PureIdle

-----------------------------------------------------------------------------
(* Settling of a source call (the gather wrapper's continuation) *)

\* a settling that files the result at the first free position of the list,
\* so that the list fills up in completion order
SourceSettlesInArrivalOrder(d, k, oc) ==
    LET p == CHOOSE j \in 1..Len(promises[d]) :
                 /\ promises[d][j].status = "pending"
                 /\ \A l \in 1..(j - 1) : promises[d][l].status # "pending" IN
    /\ dstate[d] = "gathering"
    /\ promises[d][k].status = "pending"
    /\ promises' = [promises EXCEPT ![d] =
                       [j \in 1..Len(promises[d]) |->
                           IF j = p THEN Gather(promises[d][k].src, d, oc)
                           ELSE IF j = k THEN Pending(promises[d][p].src)
                           ELSE promises[d][j]]]
    /\ outcome' = [outcome EXCEPT ![d][promises[d][k].src] = oc]
    /\ faults' = Bump(oc.kind = "value")
    /\ UNCHANGED << mode, options, domains, parallelLimit, i, mainPc, runStatus, batches,
                    delays, dstate, dpromise, info, csvData, jsonData, pricingData,
                    files, exportFailed, faultCap >>
    /\ UNCHANGED pureVars

SourceSettles(d, k, oc) ==
    /\ dstate[d] = "gathering"
    /\ promises[d][k].status = "pending"
    /\ promises' = [promises EXCEPT ![d][k] = Gather(promises[d][k].src, d, oc)]
    /\ outcome' = [outcome EXCEPT ![d][promises[d][k].src] = oc]
    /\ faults' = Bump(oc.kind = "value")
    /\ UNCHANGED << mode, options, domains, parallelLimit, i, mainPc, runStatus, batches,
                    delays, dstate, dpromise, info, csvData, jsonData, pricingData,
                    files, exportFailed, faultCap >>
    /\ UNCHANGED pureVars

SourceSettle ==
    \E d \in 1..Len(domains) : \E k \in 1..Len(promises[d]) :
        \E oc \in Outcomes(promises[d][k].src, d) : SourceSettles(d, k, oc)

AllSettled(ps) == \A k \in 1..Len(ps) : ps[k].status # "pending"

-----------------------------------------------------------------------------
(* investigateMultiple: the batch loop *)

Range(seq) == { seq[k] : k \in 1..Len(seq) }

\* Array.prototype.slice(lo, hi) with 0-based bounds 0 <= lo <= hi
SliceShort(seq, lo, hi) == SubSeq(seq, lo + 1, Min(hi - 1, Len(seq)))

SliceLong(seq, lo, hi) == SubSeq(seq, lo + 1, Min(hi + 1, Len(seq)))

Slice(seq, lo, hi) == SubSeq(seq, lo + 1, Min(hi, Len(seq)))

\* a wait that ends with the first settled orchestration
BatchSettledAny(batch) == \E d \in Range(batch) : dpromise[d] \in { "fulfilled", "rejected" }

\* a loop that goes on without waiting for the batch
BatchNotAwaited(batch) == TRUE

\* Promise.allSettled(batchPromises) has resolved
BatchSettled(batch) == \A d \in Range(batch) : dpromise[d] \in { "fulfilled", "rejected" }

\* the loop's pacing condition, line 62
MorePacingInclusive(idx) == idx + parallelLimit <= Len(domains)

MorePacing(idx) == idx + parallelLimit < Len(domains)

\* the next awaited export after the loop, lines 75-89
BatchAfterJson ==
    IF options.checkPricing /\ GetDataCount(pricingData) > 0 THEN "pricingCsvWrite" ELSE "done"

BatchAfterCsv == IF options.exportJson THEN "jsonWrite" ELSE BatchAfterJson

\* consolidated exports skipped when some orchestration ended in its catch block
BatchAfterLoopNoFailures ==
    IF \E d \in DOMAIN dstate : dstate[d] = "failed"
    THEN "done"
    ELSE (IF options.exportCsv THEN "csvWrite" ELSE BatchAfterCsv)

BatchAfterLoop == IF options.exportCsv THEN "csvWrite" ELSE BatchAfterCsv

BatchAfter(stage) ==
    CASE stage = "csvWrite" -> BatchAfterCsv
      [] stage = "jsonWrite" -> BatchAfterJson
      [] stage = "pricingCsvWrite" -> "pricingJsonWrite"
      [] OTHER -> "done"

Resolved(stage) == IF stage = "done" THEN "fulfilled" ELSE "pending"

\* a loop body that takes a limit below one as one
StartBatchAtLeastOne(idx) ==
    LET batch == Slice(domains, idx, idx + (IF parallelLimit < 1 THEN 1 ELSE parallelLimit)) IN
    /\ i' = idx
    /\ mainPc' = "await"
    /\ batches' = Append(batches, batch)
    /\ dstate' = [d \in DOMAIN dstate |-> IF d \in Range(batch) THEN "gathering" ELSE dstate[d]]
    /\ dpromise' = [d \in DOMAIN dpromise |-> IF d \in Range(batch) THEN "pending" ELSE dpromise[d]]
    /\ promises' = [d \in DOMAIN promises |->
                        IF d \in Range(batch) THEN Dispatch(mode, options) ELSE promises[d]]
    /\ UNCHANGED runStatus

\* loop body up to `await Promise.allSettled(batchPromises)`: every domain of the
\* slice runs investigateSingle up to its own await, which starts all its sources
StartBatch(idx) ==
    LET batch == Slice(domains, idx, idx + parallelLimit) IN
    /\ i' = idx
    /\ mainPc' = "await"
    /\ batches' = Append(batches, batch)
    /\ dstate' = [d \in DOMAIN dstate |-> IF d \in Range(batch) THEN "gathering" ELSE dstate[d]]
    /\ dpromise' = [d \in DOMAIN dpromise |-> IF d \in Range(batch) THEN "pending" ELSE dpromise[d]]
    /\ promises' = [d \in DOMAIN promises |->
                        IF d \in Range(batch) THEN Dispatch(mode, options) ELSE promises[d]]
    /\ UNCHANGED runStatus

\* loop exit: the code after the loop up to its first awaited export
FinishLoop(idx) ==
    /\ i' = idx
    /\ mainPc' = BatchAfterLoop
    /\ runStatus' = Resolved(BatchAfterLoop)
    /\ UNCHANGED << batches, dstate, dpromise, promises >>

\* a loop head that runs full batches only
EnterLoopFullOnly(idx) ==
    IF idx + parallelLimit <= Len(domains) THEN StartBatch(idx) ELSE FinishLoop(idx)

\* the loop head with the index at idx
EnterLoop(idx) == IF idx < Len(domains) THEN StartBatch(idx) ELSE FinishLoop(idx)

CallInvestigateMultiple ==
    /\ mode = "batch"
    /\ mainPc = "init"
    /\ EnterLoop(0)
    /\ UNCHANGED << mode, options, domains, parallelLimit, delays, outcome, info, csvData,
                    jsonData, pricingData, files, exportFailed, faults, faultCap >>
    /\ UNCHANGED pureVars

\* continuation of `await Promise.allSettled(batchPromises)`
BatchSettles ==
    /\ mode = "batch"
    /\ mainPc = "await"
    /\ BatchSettled(batches[Len(batches)])
    /\ IF MorePacing(i)
       THEN /\ mainPc' = "delay"
            /\ delays' = delays + 1
            /\ UNCHANGED << i, runStatus, batches, dstate, dpromise, promises >>
       ELSE /\ EnterLoop(i + parallelLimit)
            /\ UNCHANGED delays
    /\ UNCHANGED << mode, options, domains, parallelLimit, outcome, info, csvData,
                    jsonData, pricingData, files, exportFailed, faults, faultCap >>
    /\ UNCHANGED pureVars

\* continuation of the awaited setTimeout: i += parallelLimit, loop head
DelayElapses ==
    /\ mode = "batch"
    /\ mainPc = "delay"
    /\ EnterLoop(i + parallelLimit)
    /\ UNCHANGED << mode, options, domains, parallelLimit, delays, outcome, info, csvData,
                    jsonData, pricingData, files, exportFailed, faults, faultCap >>
    /\ UNCHANGED pureVars

\* an awaited consolidated export settles; a failed write rejects investigateMultiple
BatchWriteSettles ==
    /\ mode = "batch"
    /\ mainPc \in WriteStages
    /\ \E ok \in Endings :
        /\ faults' = Bump(ok)
        /\ IF ok
           THEN /\ files' = Append(files, [sink |-> mainPc, content |-> SinkContent(mainPc)])
                /\ mainPc' = BatchAfter(mainPc)
                /\ runStatus' = Resolved(BatchAfter(mainPc))
                /\ UNCHANGED exportFailed
           ELSE /\ mainPc' = "rejected"
                /\ runStatus' = "rejected"
                /\ exportFailed' = TRUE
                /\ UNCHANGED files
    /\ UNCHANGED << mode, options, domains, parallelLimit, i, batches, delays, dstate,
                    dpromise, promises, outcome, info, csvData, jsonData, pricingData,
                    faultCap >>
    /\ UNCHANGED pureVars

-----------------------------------------------------------------------------
(* The per-domain orchestration *)

\* continuation of `await Promise.allSettled(intelligencePromises)`: the fan-in,
\* then generateIntelligenceReport, which runs to its end without suspending.
\* A fault while rendering lands in the catch block of the orchestration.
Collect(d) ==
    /\ dstate[d] = "gathering"
    /\ AllSettled(promises[d])
    /\ info' = [info EXCEPT ![d] = FanIn(mode, promises[d], options)]
    /\ \E ok \in Endings :
        /\ faults' = Bump(ok)
        /\ IF ok
           THEN /\ dstate' = [dstate EXCEPT ![d] = "rendered"]
                /\ UNCHANGED << dpromise, mainPc, runStatus >>
           ELSE /\ dstate' = [dstate EXCEPT ![d] = "failed"]
                /\ dpromise' = [dpromise EXCEPT ![d] = "fulfilled"]
                /\ mainPc' = IF mode = "single" THEN "done" ELSE mainPc
                /\ runStatus' = IF mode = "single" THEN "fulfilled" ELSE runStatus
    /\ UNCHANGED << mode, options, domains, parallelLimit, i, batches, delays, promises,
                    outcome, csvData, jsonData, pricingData, files, exportFailed, faultCap >>
    /\ UNCHANGED pureVars

CollectResults == \E d \in 1..Len(domains) : Collect(d)

\* investigateSingle, lines 148-161: the report is added to the sinks, nothing is written
AddToSinks(d) ==
    /\ mode = "batch"
    /\ dstate[d] = "rendered"
    /\ csvData' = IF options.exportCsv THEN CsvAddDomain(csvData, d, info[d]) ELSE csvData
    /\ jsonData' = IF options.exportJson THEN JsonAddDomain(jsonData, d, info[d]) ELSE jsonData
    /\ pricingData' = IF options.checkPricing /\ Truthy(info[d]["pricing"])
                      THEN PricingAddDomain(pricingData, info[d]["pricing"])
                      ELSE pricingData
    /\ dstate' = [dstate EXCEPT ![d] = "done"]
    /\ dpromise' = [dpromise EXCEPT ![d] = "fulfilled"]
    /\ UNCHANGED << mode, options, domains, parallelLimit, i, mainPc, runStatus, batches,
                    delays, promises, outcome, info, files, exportFailed, faults, faultCap >>
    /\ UNCHANGED pureVars

AddDomainToSinks == \E d \in 1..Len(domains) : AddToSinks(d)

-----------------------------------------------------------------------------
(* investigate: the single-domain entry point *)

\* investigate up to `await Promise.allSettled(intelligencePromises)`
CallInvestigate ==
    /\ mode = "single"
    /\ mainPc = "init"
    /\ mainPc' = "await"
    /\ dstate' = [dstate EXCEPT ![1] = "gathering"]
    /\ dpromise' = [dpromise EXCEPT ![1] = "pending"]
    /\ promises' = [promises EXCEPT ![1] = Dispatch(mode, options)]
    /\ UNCHANGED << mode, options, domains, parallelLimit, i, runStatus, batches, delays,
                    outcome, info, csvData, jsonData, pricingData, files, exportFailed,
                    faults, faultCap >>
    /\ UNCHANGED pureVars

\* lines 242-250: pricing sink, then its two awaited exports
SingleFromPricing(c, j, p, d) ==
    IF options.checkPricing /\ Truthy(info[d]["pricing"])
    THEN [stage |-> "pricingCsvWrite", csv |-> c, json |-> j,
          pricing |-> PricingAddDomain(p, info[d]["pricing"])]
    ELSE [stage |-> "done", csv |-> c, json |-> j, pricing |-> p]

\* lines 236-240: JSON sink, then its awaited export
SingleFromJson(c, j, p, d) ==
    IF options.exportJson
    THEN [stage |-> "jsonWrite", csv |-> c, json |-> JsonAddDomain(j, d, info[d]), pricing |-> p]
    ELSE SingleFromPricing(c, j, p, d)

\* lines 230-234: CSV sink, then its awaited export
SingleFromCsv(c, j, p, d) ==
    IF options.exportCsv
    THEN [stage |-> "csvWrite", csv |-> CsvAddDomain(c, d, info[d]), json |-> j, pricing |-> p]
    ELSE SingleFromJson(c, j, p, d)

\* where investigate suspends next, and what it has added to the sinks until then
SingleAfter(stage, d) ==
    CASE stage = "rendered" -> SingleFromCsv(csvData, jsonData, pricingData, d)
      [] stage = "csvWrite" -> SingleFromJson(csvData, jsonData, pricingData, d)
      [] stage = "jsonWrite" -> SingleFromPricing(csvData, jsonData, pricingData, d)
      [] stage = "pricingCsvWrite" ->
            [stage |-> "pricingJsonWrite", csv |-> csvData, json |-> jsonData,
             pricing |-> pricingData]
      [] OTHER -> [stage |-> "done", csv |-> csvData, json |-> jsonData, pricing |-> pricingData]

\* the promise investigate returns when an awaited export rejects: the catch block
\* of investigate reports the error and the function returns normally
SingleExportFaultRethrown == "rejected"

SingleExportFault == "fulfilled"

SingleAdvance(d, next) ==
    /\ dstate' = [dstate EXCEPT ![d] = next.stage]
    /\ csvData' = next.csv
    /\ jsonData' = next.json
    /\ pricingData' = next.pricing
    /\ dpromise' = [dpromise EXCEPT ![d] = Resolved(next.stage)]
    /\ mainPc' = IF next.stage = "done" THEN "done" ELSE mainPc
    /\ runStatus' = Resolved(next.stage)

\* continuation of `await this.generateIntelligenceReport(domainInfo)`
SingleAfterRender ==
    /\ mode = "single"
    /\ dstate[1] = "rendered"
    /\ SingleAdvance(1, SingleAfter("rendered", 1))
    /\ UNCHANGED << mode, options, domains, parallelLimit, i, batches, delays, promises,
                    outcome, info, files, exportFailed, faults, faultCap >>
    /\ UNCHANGED pureVars

\* an awaited per-domain export settles
SingleWriteSettles ==
    /\ mode = "single"
    /\ dstate[1] \in WriteStages
    /\ \E ok \in Endings :
        /\ faults' = Bump(ok)
        /\ IF ok
           THEN /\ files' = Append(files, [sink |-> dstate[1], content |-> SinkContent(dstate[1])])
                /\ SingleAdvance(1, SingleAfter(dstate[1], 1))
                /\ UNCHANGED exportFailed
           ELSE /\ dstate' = [dstate EXCEPT ![1] = "failed"]
                /\ dpromise' = [dpromise EXCEPT ![1] = SingleExportFault]
                /\ mainPc' = IF SingleExportFault = "rejected" THEN "rejected" ELSE "done"
                /\ runStatus' = SingleExportFault
                /\ exportFailed' = TRUE
                /\ UNCHANGED << files, csvData, jsonData, pricingData >>
    /\ UNCHANGED << mode, options, domains, parallelLimit, i, batches, delays, promises,
                    outcome, info, faultCap >>
    /\ UNCHANGED pureVars

-----------------------------------------------------------------------------
(* Specifications *)

Next ==
    \/ CallInvestigate
    \/ CallInvestigateMultiple
    \/ SourceSettle
    \/ CollectResults
    \/ AddDomainToSinks
    \/ SingleAfterRender
    \/ SingleWriteSettles
    \/ BatchSettles
    \/ BatchWriteSettles

Spec == Init /\ [][Next]_vars

\* the scheduler specification: batch mode, lists of up to MaxDomains domains,
\* limits up to MaxLimit, the three unconditional sources, a budget of MaxFaults faults
InitBatch ==
    /\ mode = "batch"
    /\ options \in { o \in OptionSets : o.quick /\ ~o.subdomains /\ ~o.checkPricing }
    /\ \E n \in 0..MaxDomains : domains = DomainList(n)
    /\ parallelLimit \in 1..MaxLimit
    /\ faultCap = MaxFaults
    /\ InitCommon
    /\ PureIdle

NextBatch ==
    \/ CallInvestigateMultiple
    \/ SourceSettle
    \/ CollectResults
    \/ AddDomainToSinks
    \/ BatchSettles
    \/ DelayElapses
    \/ BatchWriteSettles

SpecBatch == InitBatch /\ [][NextBatch]_vars

-----------------------------------------------------------------------------
(* Properties of the orchestration (specification Spec) *)

DomainIds == 1..Len(domains)

\* the fan-in of domain d has run
Collected(d) == dstate[d] \notin { "idle", "gathering" }

\* the sources whose call was started for domain d
DispatchedSet(d) == { promises[d][k].src : k \in 1..Len(promises[d]) }

\* the slots the fan-in of domain d has assigned
AssignedSlots(d) == { s \in SourceSet : info[d][s] # Undefined }

\* what the slot of source s must hold, given what the service call did
OwnOutcome(d, s) ==
    CASE outcome[d][s].kind = "value" -> outcome[d][s].value
      [] outcome[d][s].kind = "fault" -> Null
      [] OTHER -> Undefined

\* C1: in both entry points, for every configuration, the sources dispatched and
\* the slots assigned are exactly the active set: whois, dns, ssl always, network
\* iff not quick, subdomains iff the subdomains flag, pricing iff checkPricing.
C1_ActiveSetExact ==
    \A d \in DomainIds :
        /\ dstate[d] # "idle" => DispatchedSet(d) = Active(options)
        /\ Collected(d) => AssignedSlots(d) = Active(options)

\* C2: after the fan-in every assigned slot holds the outcome of its own source
\* (the value that source's service resolved with for this domain, or null when
\* it faulted), never the outcome of another source.
C2_SlotHoldsOwnOutcome ==
    \A d \in DomainIds : Collected(d) =>
        \A s \in AssignedSlots(d) :
            /\ s \in DispatchedSet(d)
            /\ outcome[d][s].kind # "none"
            /\ info[d][s] = OwnOutcome(d, s)

C2_Witness ==
    \E d \in DomainIds :
        /\ mode = "single"
        /\ dstate[d] = "rendered"
        /\ ~options.quick /\ options.subdomains /\ options.checkPricing
        /\ outcome[d]["network"].kind = "fault"
        /\ outcome[d]["dns"].kind = "fault"
        /\ info[d]["subdomains"] = Present("subdomains", d)
        /\ info[d]["pricing"] = Present("pricing", d)
        /\ info[d]["network"] = Null

\* C3: when an active source has faulted, every other active source has been
\* dispatched, a still pending one can settle, and once the fan-in has run each
\* other slot holds its own outcome while the faulting source's slot is null.
C3_FanOutIsolation ==
    \A d \in DomainIds : \A s \in SourceSet : outcome[d][s].kind = "fault" =>
        /\ DispatchedSet(d) = Range(PromisesOf(mode, options))
        /\ dstate[d] = "gathering" =>
            \A k \in 1..Len(promises[d]) : promises[d][k].status = "pending" =>
                ENABLED SourceSettles(d, k, ValueOutcome(promises[d][k].src, d))
        /\ Collected(d) =>
            /\ info[d][s] = Null
            /\ \A t \in DispatchedSet(d) \ { s } :
                /\ outcome[d][t].kind # "none"
                /\ info[d][t] = OwnOutcome(d, t)

C3_Witness ==
    \E d \in DomainIds :
        /\ Collected(d)
        /\ outcome[d]["whois"].kind = "fault"
        /\ \A t \in DispatchedSet(d) \ { "whois" } : info[d][t] = Present(t, d)
        /\ Cardinality(DispatchedSet(d)) >= 5

\* C4: a faulted source call leaves null in its own slot, whatever the cause, and
\* the promise of the orchestration (investigate, investigateSingle) never rejects.
C4_FaultIsAbsent ==
    \A d \in DomainIds :
        /\ dpromise[d] # "rejected"
        /\ Collected(d) =>
            \A s \in SourceSet : outcome[d][s].kind = "fault" => info[d][s] = Null

C4_Witness ==
    \E d \in DomainIds :
        /\ dstate[d] = "done"
        /\ dpromise[d] = "fulfilled"
        /\ outcome[d]["ssl"] = FaultOutcome("timeout")
        /\ outcome[d]["dns"] = FaultOutcome("transport")
        /\ info[d]["ssl"] = Null /\ info[d]["dns"] = Null

\* C5: a failed write of any export sink rejects the promise the entry point
\* returned, in single-domain mode and in batch mode.
C5_ExportFailureSurfaces == exportFailed => runStatus = "rejected"

-----------------------------------------------------------------------------
(* Properties of the batch scheduler (specification SpecBatch) *)

CeilDiv(a, b) == (a + b - 1) \div b

\* the batch loop has ended
LoopFinished == mode = "batch" /\ mainPc \in WriteStages \cup { "done", "rejected" }

InCsv(d) == \E k \in 1..Len(csvData) : csvData[k].kind = "row" /\ csvData[k].domain = d
InJson(d) == \E k \in 1..Len(jsonData) : jsonData[k].domain = d
Written(stage) == \E k \in 1..Len(files) : files[k].sink = stage

\* C6: a fault in one domain's orchestration (rendering included) ends that domain
\* only: the run is not rejected by it, at the end of the loop every domain has
\* been processed and every domain that did not fault is in the configured sinks,
\* and the consolidated exports are still written.
C6_DomainFaultIsolated ==
    /\ ~exportFailed => runStatus # "rejected"
    /\ Cardinality({ d \in DomainIds : dstate[d] = "failed" }) <= faults
    /\ LoopFinished =>
        \A d \in DomainIds :
            \/ dstate[d] = "failed"
            \/ /\ dstate[d] = "done"
               /\ options.exportCsv => InCsv(d)
               /\ options.exportJson => InJson(d)
    /\ mainPc = "done" =>
        /\ options.exportCsv => Written("csvWrite")
        /\ options.exportJson => Written("jsonWrite")

C6_Witness ==
    /\ mainPc = "done"
    /\ Len(domains) = 3 /\ parallelLimit = 2
    /\ dstate[1] = "failed" /\ dstate[2] = "done" /\ dstate[3] = "done"
    /\ options.exportCsv /\ options.exportJson
    /\ InCsv(2) /\ InCsv(3) /\ ~InCsv(1)
    /\ Written("csvWrite") /\ Written("jsonWrite")

\* the k-th consecutive slice of the domain list
ExpectedBatch(k) ==
    [j \in 1..(Min(k * parallelLimit, Len(domains)) - (k - 1) * parallelLimit) |->
        domains[(k - 1) * parallelLimit + j]]

\* C7: the batches dispatched are the consecutive slices of the input, in input
\* order; when the loop has ended there are exactly ceil(n / L) of them.
C7_Batches ==
    /\ Len(batches) <= CeilDiv(Len(domains), parallelLimit)
    /\ \A k \in 1..Len(batches) : batches[k] = ExpectedBatch(k)
    /\ LoopFinished => Len(batches) = CeilDiv(Len(domains), parallelLimit)

C7_Witness ==
    /\ LoopFinished
    /\ Len(domains) = 3 /\ parallelLimit = 2
    /\ batches = << << 1, 2 >>, << 3 >> >>

\* C8: once a batch has been dispatched, every orchestration of every earlier
\* batch has settled.
C8_BatchBarrier ==
    \A k \in 1..Len(batches) : \A e \in 1..(k - 1) :
        \A d \in Range(batches[e]) : dpromise[d] \in { "fulfilled", "rejected" }

C8_Witness ==
    /\ Len(batches) = 2
    /\ Len(batches[1]) = 2
    /\ dstate[1] = "failed" /\ dstate[2] = "done"
    /\ dstate[3] = "gathering"

\* C9: the orchestrations dispatched and not yet settled never outnumber the limit.
C9_BoundedConcurrency ==
    Cardinality({ d \in DomainIds : dpromise[d] = "pending" }) <= parallelLimit

C9_Witness ==
    /\ parallelLimit = 2
    /\ Cardinality({ d \in DomainIds : dpromise[d] = "pending" }) = 2
    /\ \E d \in DomainIds : dstate[d] = "idle"

\* C10: one pacing delay between consecutive batches and no other: a delay runs
\* only when every dispatched orchestration has settled and a domain is still to
\* be dispatched, and outside a delay the delays started are one fewer than the
\* batches dispatched.
C10_PacingDelay ==
    /\ Len(batches) = 0 => delays = 0
    /\ mainPc = "delay" =>
        /\ delays = Len(batches)
        /\ \A d \in DomainIds : dpromise[d] # "pending"
        /\ \E d \in DomainIds : dstate[d] = "idle"
    /\ (mainPc # "delay" /\ Len(batches) > 0) => delays = Len(batches) - 1

C10_Witness ==
    /\ mainPc = "done"
    /\ Len(batches) = 3
    /\ delays = 2

-----------------------------------------------------------------------------
(* Consolidated export (investigateMultiple, lines 75-89) *)

\* the write stages of the sinks the options configure: the constructor builds
\* the CSV, JSON and pricing exporters from exportCsv, exportJson and checkPricing
ConfiguredStages ==
    (IF options.exportCsv THEN { "csvWrite" } ELSE {})
        \cup (IF options.exportJson THEN { "jsonWrite" } ELSE {})
        \cup (IF options.checkPricing THEN { "pricingCsvWrite", "pricingJsonWrite" } ELSE {})

TimesWritten(stage) == Cardinality({ k \in 1..Len(files) : files[k].sink = stage })

\* a file exists only once the batch loop is over and every domain has settled
WrittenOnlyAfterLoop ==
    files # << >> =>
        /\ LoopFinished
        /\ \A d \in DomainIds : dstate[d] \in { "done", "failed" }

\* C11: in batch mode no export file is written while a batch is still running
\* (investigateSingle writes none), no sink is written twice, and a run that
\* ends has written every configured sink (CSV, JSON, pricing CSV and pricing
\* JSON) exactly once.
C11_ConsolidatedExportOnce ==
    mode = "batch" =>
        /\ WrittenOnlyAfterLoop
        /\ \A stage \in WriteStages : TimesWritten(stage) <= 1
        /\ mainPc = "done" => \A stage \in ConfiguredStages : TimesWritten(stage) = 1

\* the part of C11 that concerns the CSV and JSON sinks only
C11_CsvJsonOnly ==
    mode = "batch" =>
        /\ WrittenOnlyAfterLoop
        /\ \A stage \in WriteStages : TimesWritten(stage) <= 1
        /\ mainPc = "done" =>
              \A stage \in ConfiguredStages \cap { "csvWrite", "jsonWrite" } :
                  TimesWritten(stage) = 1

\* the positions of the domain rows of the CSV sink (the header is not one)
CsvRows == { k \in 1..Len(csvData) : csvData[k].kind = "row" }

\* C12: the rows of the CSV sink stand in the order of the input list, whatever
\* the order in which the sources and the domains of a batch complete (the k-th
\* domain of the input list is the domain k).
C12_RowOrderIsInputOrder ==
    \A j, k \in CsvRows : j < k => csvData[j].domain < csvData[k].domain

\* across batches the order is the input order: a row of a later batch never
\* precedes a row of an earlier batch
C12_OrderAcrossBatches ==
    \A j, k \in CsvRows :
        j < k => \A a, b \in 1..Len(batches) :
                    (csvData[j].domain \in Range(batches[a])
                        /\ csvData[k].domain \in Range(batches[b])) => a <= b

\* the domains whose orchestration ran to its end (no domain-level fault)
Processed == { d \in DomainIds : dstate[d] = "done" }

\* the run is over and no export write failed
RunEnded == mainPc = "done" /\ ~exportFailed

\* C13: at the end of a run the CSV sink holds one row (header excluded) per
\* processed domain and, when pricing is enabled, the pricing sink holds one
\* entry per processed domain, whatever sources failed.
C13_SinkCountsMatchProcessed ==
    RunEnded =>
        /\ options.exportCsv => GetRowCount(csvData) = Cardinality(Processed)
        /\ options.checkPricing => GetDataCount(pricingData) = Cardinality(Processed)

\* the CSV half of C13, and its case where every source of a domain failed
C13_CsvCountMatches ==
    RunEnded /\ options.exportCsv => GetRowCount(csvData) = Cardinality(Processed)

\* the pricing half of C13 for the single-domain entry point, which does
\* dispatch the pricing source
C13_PricingCountSingle ==
    RunEnded /\ mode = "single" /\ options.checkPricing =>
        GetDataCount(pricingData) = Cardinality(Processed)

-----------------------------------------------------------------------------
(* Pricing analysis: PricingExportService.analyzePricing (the analysis block of
   the pricing JSON export) and CSVExportService.processPricingData (the pricing
   columns of a CSV row) *)

\* longest quote list analysed
MaxQuotes == 2
\* number of times the analysis of one quote list is repeated
MaxAnalyses == 2

\* an optional number (registrationPrice?: number): absent, or present with value v
NoPrice == [has |-> FALSE]
Price(n) == [has |-> TRUE, v |-> n]

\* the registration prices quotes carry: absent, negative, zero, positive
RegistrationPrices == { NoPrice } \cup { Price(n) : n \in { -1, 0, 1, 2 } }
RenewalPrices == { NoPrice } \cup { Price(n) : n \in { 1, 2 } }

\* error?: string, undefined when the provider answered without annotation
NoError == "undefined"
ErrorTexts == { NoError, "Live pricing via web scraping" }

\* the provider of the k-th quote: the order of the lookups
ProviderNames == << "Cloudflare", "Namecheap", "Porkbun", "GoDaddy", "Name.com" >>

\* a DomainPricing without its provider (currency and url play no part in the analysis)
QuoteBodies ==
    [available : BOOLEAN, registrationPrice : RegistrationPrices,
     renewalPrice : RenewalPrices, error : ErrorTexts]

DomainPricing(k, b) ==
    [provider |-> ProviderNames[k], available |-> b.available,
     registrationPrice |-> b.registrationPrice, renewalPrice |-> b.renewalPrice,
     error |-> b.error]

\* the DomainPricing[] whose k-th quote is f[k] as answered by the k-th provider
QuoteList(f) == [k \in DOMAIN f |-> DomainPricing(k, f[k])]

\* JavaScript truthiness of an optional number: undefined and 0 are falsy
TruthyPrice(p) == p.has /\ p.v # 0

\* numbers extended with the infinities: inf is -1, 0 or 1
Finite(n) == [inf |-> 0, v |-> n]
Infinity == [inf |-> 1, v |-> 0]
MinusInfinity == [inf |-> -1, v |-> 0]

\* a < b on extended numbers
ExtLess(a, b) == IF a.inf # b.inf THEN a.inf < b.inf ELSE a.inf = 0 /\ a.v < b.v

\* a - b for the operands the analysis produces (never Infinity - Infinity)
ExtMinus(a, b) ==
    IF a.inf = 0 /\ b.inf = 0 THEN Finite(a.v - b.v)
    ELSE IF a.inf # 0 THEN a
    ELSE IF b.inf = 1 THEN MinusInfinity ELSE Infinity

\* `price || Infinity`
OrInfinity(p) == IF TruthyPrice(p) THEN Finite(p.v) ELSE Infinity

\* the filter both analyses apply: p.available && p.registrationPrice
ValidPricing(p) == p.available /\ TruthyPrice(p.registrationPrice)

\* the reduce callback: curr replaces prev only when strictly cheaper on the axis
Cheaper(axis, curr, prev) == ExtLess(OrInfinity(curr[axis]), OrInfinity(prev[axis]))

\* Array.prototype.reduce without initial value, from element k with accumulator prev
RECURSIVE Reduce(_, _, _, _)
Reduce(seq, axis, k, prev) ==
    IF k > Len(seq) THEN prev
    ELSE Reduce(seq, axis, k + 1, IF Cheaper(axis, seq[k], prev) THEN seq[k] ELSE prev)

Cheapest(seq, axis) == Reduce(seq, axis, 2, seq[1])

\* validPricing.map(p => p[axis]!).filter(p => p > 0): undefined > 0 is false
PositivePrices(seq, axis) ==
    LET Positive(p) == p[axis].has /\ p[axis].v > 0
        kept == SelectSeq(seq, Positive)
    IN  [k \in 1..Len(kept) |-> kept[k][axis].v]

\* Math.min(...prices) and Math.max(...prices); of no argument they are the infinities
MathMin(prices) ==
    IF Len(prices) = 0 THEN Infinity
    ELSE Finite(CHOOSE x \in Range(prices) : \A y \in Range(prices) : x <= y)

MathMax(prices) ==
    IF Len(prices) = 0 THEN MinusInfinity
    ELSE Finite(CHOOSE x \in Range(prices) : \A y \in Range(prices) : x >= y)

RECURSIVE Sum(_)
Sum(prices) == IF Len(prices) = 0 THEN 0 ELSE prices[1] + Sum(Tail(prices))

\* { min, max, spread } of a price list
PriceRange(prices) ==
    [tag |-> "value", min |-> MathMin(prices), max |-> MathMax(prices),
     spread |-> ExtMinus(MathMax(prices), MathMin(prices))]

\* sum / length, kept as the exact fraction; null for no price
Average(prices) ==
    IF Len(prices) > 0 THEN [tag |-> "value", sum |-> Sum(prices), count |-> Len(prices)]
    ELSE Null

\* the result for a quote list without a quote that passes the filter
Unavailable ==
    [cheapestRegistration |-> Null, cheapestRenewal |-> Null, priceRange |-> Null,
     avgRegistrationPrice |-> Null, avgRenewalPrice |-> Null, providerCount |-> 0]

\* PricingExportService.analyzePricing
AnalyzePricing(pricing) ==
    LET validPricing == SelectSeq(pricing, ValidPricing) IN
    IF Len(validPricing) = 0 THEN Unavailable
    ELSE
        LET regPrices == PositivePrices(validPricing, "registrationPrice")
            renewalPrices == PositivePrices(validPricing, "renewalPrice")
            cheapestReg == Cheapest(validPricing, "registrationPrice")
            cheapestRenewal == Cheapest(validPricing, "renewalPrice")
        IN  [cheapestRegistration |->
                 [tag |-> "value", provider |-> cheapestReg.provider,
                  price |-> cheapestReg.registrationPrice],
             cheapestRenewal |->
                 [tag |-> "value", provider |-> cheapestRenewal.provider,
                  price |-> cheapestRenewal.renewalPrice],
             priceRange |->
                 [tag |-> "value",
                  registration |-> PriceRange(regPrices),
                  renewal |-> IF Len(renewalPrices) > 0 THEN PriceRange(renewalPrices) ELSE Null],
             avgRegistrationPrice |-> Average(regPrices),
             avgRenewalPrice |-> Average(renewalPrices),
             providerCount |-> Len(validPricing)]

\* `$${price?.toFixed(2) || 'N/A'}`: a present price is written with two decimals
\* (kept as its amount in cents), an absent one as N/A
Dollars(p) == IF p.has THEN [text |-> "$", cents |-> p.v * 100] ELSE [text |-> "$N/A", cents |-> 0]

\* an empty CSV cell
Blank == [text |-> "", cents |-> 0]

\* the pricing columns when no quote passes the filter, or no pricing was gathered
NoPricingColumns(isAvailable) ==
    [isAvailable |-> isAvailable, cheapestRegistration |-> Blank, cheapestRenewal |-> Blank,
     bestRegProvider |-> "", bestRenewalProvider |-> "", allPricing |-> << >>]

\* CSVExportService.processPricingData
ProcessPricingData(pricing) ==
    IF ~Truthy(pricing) THEN NoPricingColumns("Unknown")
    ELSE
        LET validPricing == SelectSeq(pricing.pricing, ValidPricing)
            isAvailable == IF pricing.isAvailable THEN "Yes" ELSE "No"
        IN  IF Len(validPricing) = 0 THEN NoPricingColumns(isAvailable)
            ELSE
                LET cheapestReg == Cheapest(validPricing, "registrationPrice")
                    cheapestRen == Cheapest(validPricing, "renewalPrice")
                IN  [isAvailable |-> isAvailable,
                     cheapestRegistration |-> Dollars(cheapestReg.registrationPrice),
                     cheapestRenewal |-> Dollars(cheapestRen.renewalPrice),
                     bestRegProvider |-> cheapestReg.provider,
                     bestRenewalProvider |-> cheapestRen.provider,
                     allPricing |-> [k \in 1..Len(validPricing) |->
                                        [provider |-> validPricing[k].provider,
                                         reg |-> Dollars(validPricing[k].registrationPrice),
                                         ren |-> Dollars(validPricing[k].renewalPrice)]]]

\* the DomainAvailabilityResult carrying the quote list: the pricing service asks
\* the providers only for a domain it found available, and leaves the list empty otherwise
AvailabilityResult(pricing) ==
    [tag |-> "value", isAvailable |-> Len(pricing) > 0, pricing |-> pricing]

\* the caller's quote list after an analysis, were the analysis to sort it in place
PricingReversedInPlace(pricing) == [k \in 1..Len(pricing) |-> pricing[Len(pricing) + 1 - k]]

\* the caller's quote list after an analysis: filter, map and reduce build new
\* arrays and read the argument only
PricingAfterAnalysis(pricing) == pricing

\* the filter of the pricing display: p.available && !p.error
DisplayedPricing(p) == p.available /\ p.error = NoError

\* Array.prototype.sort with the comparator key(a) - key(b), key = price || Infinity:
\* the sort is stable, and Infinity - Infinity is NaN, which counts as equal.
\* Insertion of p into a sorted list, after every element not greater than it.
RECURSIVE InsertByPrice(_, _, _)
InsertByPrice(sorted, p, axis) ==
    IF Len(sorted) = 0 THEN << p >>
    ELSE IF ExtLess(OrInfinity(p[axis]), OrInfinity(Head(sorted)[axis]))
         THEN << p >> \o sorted
         ELSE << Head(sorted) >> \o InsertByPrice(Tail(sorted), p, axis)

RECURSIVE SortByPrice(_, _)
SortByPrice(seq, axis) ==
    IF Len(seq) = 0 THEN << >>
    ELSE InsertByPrice(SortByPrice(SubSeq(seq, 1, Len(seq) - 1), axis), seq[Len(seq)], axis)

\* the pricing block of generateIntelligenceReport (lines 410-480): the table in
\* registration-price order and the two best deals; nothing is shown for a
\* registered domain or when no quote passes the filter
DisplayPricing(pricing) ==
    LET validPricing == SelectSeq(pricing.pricing, DisplayedPricing) IN
    IF ~pricing.isAvailable \/ Len(validPricing) = 0
    THEN [tag |-> "value", table |-> << >>, cheapestReg |-> Null, cheapestRenewal |-> Null]
    ELSE
        LET sortedPricing == SortByPrice(validPricing, "registrationPrice")
            byRenewal == SortByPrice(sortedPricing, "renewalPrice")
        IN  [tag |-> "value",
             table |-> [k \in 1..Len(sortedPricing) |-> sortedPricing[k].provider],
             cheapestReg |-> [tag |-> "value", provider |-> sortedPricing[1].provider,
                              price |-> sortedPricing[1].registrationPrice],
             cheapestRenewal |-> [tag |-> "value", provider |-> byRenewal[1].provider,
                                  price |-> byRenewal[1].renewalPrice]]

\* the report's quote list after the display, were the display to sort it directly
PricingSortedInPlace(pricing) == SortByPrice(pricing, "registrationPrice")

\* the report's quote list after the display: filter copies the list, and both
\* sorts work on that copy
PricingAfterDisplay(pricing) == pricing

\* generateIntelligenceReport showing the pricing of the report
DisplayPricingCall ==
    /\ displayed = NotRun
    /\ displayed' = DisplayPricing(AvailabilityResult(quotes))
    /\ quotes' = PricingAfterDisplay(quotes)
    /\ UNCHANGED << analysis, csvPricing, analyses, threatVars, escapeVars, availVars >>
    /\ UNCHANGED orchVars

\* the orchestration is not involved in an analysis
OrchIdle ==
    /\ mode = "none"
    /\ options = [quick |-> FALSE, subdomains |-> FALSE, checkPricing |-> FALSE,
                  exportCsv |-> FALSE, exportJson |-> FALSE]
    /\ domains = << >>
    /\ parallelLimit = 1
    /\ faultCap = 0
    /\ InitCommon

\* CSVExportService.addDomain computing the pricing columns of a row, once the
\* report has been rendered
ProcessPricingDataCall ==
    /\ displayed # NotRun
    /\ csvPricing = NotRun
    /\ analyses = 0
    /\ csvPricing' = ProcessPricingData(AvailabilityResult(quotes))
    /\ UNCHANGED << quotes, analysis, analyses, displayed, threatVars, escapeVars, availVars >>
    /\ UNCHANGED orchVars

\* exportPricingJSON computing the analysis of one domain's quote list; a later
\* export analyses the same list again
AnalyzePricingCall ==
    /\ csvPricing # NotRun
    /\ analyses < MaxAnalyses
    /\ analysis' = AnalyzePricing(quotes)
    /\ quotes' = PricingAfterAnalysis(quotes)
    /\ analyses' = analyses + 1
    /\ UNCHANGED << csvPricing, displayed, threatVars, escapeVars, availVars >>
    /\ UNCHANGED orchVars

InitPricing ==
    /\ OrchIdle
    /\ \E m \in 0..MaxQuotes : \E f \in [1..m -> QuoteBodies] : quotes = QuoteList(f)
    /\ analysis = NotRun
    /\ csvPricing = NotRun
    /\ analyses = 0
    /\ displayed = NotRun
    /\ ThreatIdle
    /\ EscapeIdle
    /\ AvailIdle

NextPricing ==
    \/ DisplayPricingCall
    \/ ProcessPricingDataCall
    \/ AnalyzePricingCall

SpecPricing == InitPricing /\ [][NextPricing]_vars

-----------------------------------------------------------------------------
(* Properties of the pricing analysis *)

Analysed == analysis # NotRun
CsvProcessed == csvPricing # NotRun

\* the quotes that carry no error annotation, in input order
ErrorFree(pricing) ==
    LET Clean(p) == p.error = NoError IN SelectSeq(pricing, Clean)

\* the specification's valid quote: available, no error annotation, and a
\* usable registration price
ValidQuote(p) == p.available /\ p.error = NoError /\ TruthyPrice(p.registrationPrice)

ValidIndexes == { k \in 1..Len(quotes) : ValidQuote(quotes[k]) }

\* the pricing columns of a CSV row that name a cheapest quote
BestColumns(c) ==
    << c.bestRegProvider, c.cheapestRegistration, c.bestRenewalProvider, c.cheapestRenewal >>

\* C14: a quote with an error annotation takes no part in the analysis: cheapest
\* registration, cheapest renewal, price range, means and valid-quote count, and
\* the cheapest columns of the CSV row, are those of the quote list without
\* its annotated quotes, even when such a quote is available and priced.
C14_ErrorQuoteExcluded ==
    /\ Analysed => analysis = AnalyzePricing(ErrorFree(quotes))
    /\ CsvProcessed =>
          BestColumns(csvPricing)
              = BestColumns(ProcessPricingData(AvailabilityResult(ErrorFree(quotes))))

\* C15: the analysis is the Unavailable result exactly when the quote list holds
\* no valid quote (the empty list included); otherwise its cheapest registration
\* is not null.
C15_UnavailableIffNoValidQuote ==
    Analysed =>
        /\ analysis = Unavailable <=> ValidIndexes = {}
        /\ analysis # Unavailable => analysis.cheapestRegistration.tag = "value"

\* the first valid quote, in input order, whose price on the axis is the least
\* among the valid quotes that carry a price on that axis
WithPrice(axis) == { k \in ValidIndexes : quotes[k][axis].has }

FirstCheapest(axis) ==
    CHOOSE k \in WithPrice(axis) :
        \A j \in WithPrice(axis) :
            \/ quotes[k][axis].v < quotes[j][axis].v
            \/ quotes[k][axis].v = quotes[j][axis].v /\ k <= j

\* C16: with at least one valid quote, the cheapest registration reported (in
\* the analysis and in the CSV row) is the valid quote of least registration
\* price, the first in input order among equals.
C16_CheapestRegistration ==
    ValidIndexes # {} =>
        LET best == quotes[FirstCheapest("registrationPrice")] IN
        /\ Analysed =>
              analysis.cheapestRegistration
                  = [tag |-> "value", provider |-> best.provider, price |-> best.registrationPrice]
        /\ CsvProcessed =>
              /\ csvPricing.bestRegProvider = best.provider
              /\ csvPricing.cheapestRegistration = Dollars(best.registrationPrice)

\* C17: a cheapest renewal that is reported (in the analysis or in the CSV row)
\* carries a renewal price, and is the valid quote of least renewal price among
\* those that have one, the first in input order among equals.
C17_CheapestRenewal ==
    /\ (Analysed /\ analysis.cheapestRenewal # Null) =>
          /\ analysis.cheapestRenewal.price.has
          /\ WithPrice("renewalPrice") # {}
          /\ LET best == quotes[FirstCheapest("renewalPrice")] IN
             analysis.cheapestRenewal
                 = [tag |-> "value", provider |-> best.provider, price |-> best.renewalPrice]
    /\ (CsvProcessed /\ csvPricing.bestRenewalProvider # "") =>
          /\ WithPrice("renewalPrice") # {}
          /\ LET best == quotes[FirstCheapest("renewalPrice")] IN
             /\ csvPricing.bestRenewalProvider = best.provider
             /\ csvPricing.cheapestRenewal = Dollars(best.renewalPrice)

\* the registration prices the range is to be computed over
RangePrices ==
    { quotes[k].registrationPrice.v :
        k \in { j \in ValidIndexes : quotes[j].registrationPrice.v > 0 } }

\* C18: whenever an analysis is returned, the registration range is that of the
\* valid quotes with a positive registration price: min and max are the least
\* and greatest of these prices, min <= max, spread = max - min >= 0, min is the
\* cheapest registration price reported, and min <= mean <= max.
C18_RegistrationRange ==
    (Analysed /\ analysis # Unavailable) =>
        LET r == analysis.priceRange.registration
            avg == analysis.avgRegistrationPrice
        IN  /\ r.min.inf = 0 /\ r.max.inf = 0 /\ r.spread.inf = 0
            /\ RangePrices # {}
            /\ \A x \in RangePrices : r.min.v <= x /\ x <= r.max.v
            /\ r.min.v \in RangePrices /\ r.max.v \in RangePrices
            /\ r.min.v <= r.max.v
            /\ r.spread.v = r.max.v - r.min.v /\ r.spread.v >= 0
            /\ analysis.cheapestRegistration.price = Price(r.min.v)
            /\ avg # Null
            /\ r.min.v * avg.count <= avg.sum /\ avg.sum <= r.max.v * avg.count

AllErrorFree == \A k \in 1..Len(quotes) : quotes[k].error = NoError

\* C15 and C16 hold on quote lists that carry no error annotation
C15_OnErrorFreeLists == AllErrorFree => C15_UnavailableIffNoValidQuote
C16_OnErrorFreeLists == AllErrorFree => C16_CheapestRegistration

\* C17 holds on such lists when every quote carries a renewal price
C17_OnRenewalPricedLists ==
    (AllErrorFree /\ \A k \in 1..Len(quotes) : quotes[k].renewalPrice.has) => C17_CheapestRenewal

\* C18 holds on such lists when no registration price is negative
C18_OnNonNegativePrices ==
    (AllErrorFree /\ \A k \in 1..Len(quotes) :
                        quotes[k].registrationPrice.has => quotes[k].registrationPrice.v >= 0)
        => C18_RegistrationRange

-----------------------------------------------------------------------------
(* Threat assessment of a CSV row: CSVExportService.assessThreats and getThreatLevel *)

\* a certificate with fewer days left is reported as expiring
ExpiryDays == 30
\* a registration fewer days old is reported as recent
RecentDays == 30

\* day counts on both sides of a threshold t, an overdue one included
DaysAround(t) == { -1, 0, t - 1, t, t + 1 }

\* daysUntilExpiry?: number
OptionalDays(t) == { NoPrice } \cup { Price(n) : n \in DaysAround(t) }

\* ssl?: SSLData -- undefined (not gathered), null (the source faulted) or a certificate
SslValues ==
    { Undefined, Null }
        \cup { [tag |-> "value", daysUntilExpiry |-> n, isValid |-> v] :
                 n \in OptionalDays(ExpiryDays), v \in { "true", "false", "undefined" } }

\* registrationDate?: string -- absent, unparsable, or a date some days back
RegistrationDates ==
    { [kind |-> "undefined", daysAgo |-> 0], [kind |-> "invalid", daysAgo |-> 0] }
        \cup { [kind |-> "date", daysAgo |-> n] : n \in DaysAround(RecentDays) }

WhoisValues ==
    { Undefined, Null } \cup { [tag |-> "value", registrationDate |-> r] : r \in RegistrationDates }

\* the part of a DomainInfo the assessment reads
DomainInfos == [ssl : SslValues, whois : WhoisValues]

\* the finding texts, word by word
ExpiryFinding(n) == << "SSL", "expires", "in", ToString(n), "days" >>
NoSslFinding == << "No", "SSL", "certificate", "detected" >>
RecentFinding == << "Domain", "registered", "recently" >>
InvalidSslFinding == << "Invalid", "SSL", "certificate" >>

\* String.prototype.includes on texts and patterns given word by word
Includes(text, pattern) ==
    \E k \in 0..(Len(text) - Len(pattern)) : SubSeq(text, k + 1, k + Len(pattern)) = pattern

\* threats.push(text), when the condition of the rule holds
PushIf(threatList, cond, text) == IF cond THEN Append(threatList, text) ELSE threatList

\* the expiry rule with the threshold day included
ExpiresSoonInclusive(domainInfo) ==
    /\ Truthy(domainInfo.ssl)
    /\ domainInfo.ssl.daysUntilExpiry.has
    /\ domainInfo.ssl.daysUntilExpiry.v <= ExpiryDays

\* info.ssl?.daysUntilExpiry !== undefined && info.ssl.daysUntilExpiry < 30
ExpiresSoon(domainInfo) ==
    /\ Truthy(domainInfo.ssl)
    /\ domainInfo.ssl.daysUntilExpiry.has
    /\ domainInfo.ssl.daysUntilExpiry.v < ExpiryDays

\* info.whois?.registrationDate is set and (now - date) in days < 30; the day
\* count of an unparsable date is NaN, which is below nothing
RegisteredRecently(domainInfo) ==
    /\ Truthy(domainInfo.whois)
    /\ domainInfo.whois.registrationDate.kind = "date"
    /\ domainInfo.whois.registrationDate.daysAgo < RecentDays

\* CSVExportService.assessThreats: the rules in the order of the code
AssessThreats(domainInfo) ==
    LET expiry == PushIf(<< >>, ExpiresSoon(domainInfo),
                         ExpiryFinding(IF ExpiresSoon(domainInfo) THEN domainInfo.ssl.daysUntilExpiry.v ELSE 0))
        missing == PushIf(expiry, ~Truthy(domainInfo.ssl), NoSslFinding)
        recent == PushIf(missing, RegisteredRecently(domainInfo), RecentFinding)
    IN  PushIf(recent, Truthy(domainInfo.ssl) /\ domainInfo.ssl.isValid = "false", InvalidSslFinding)

\* threats.some(t => t.includes(pattern))
SomeIncludes(threatList, pattern) ==
    \E k \in 1..Len(threatList) : Includes(threatList[k], pattern)

\* getThreatLevel with the expiry test ahead of the certificate tests
GetThreatLevelExpiryFirst(threatList) ==
    IF Len(threatList) = 0 THEN "LOW"
    ELSE IF SomeIncludes(threatList, << "expires" >>) THEN "MEDIUM"
    ELSE IF SomeIncludes(threatList, << "Invalid", "SSL" >>)
            \/ SomeIncludes(threatList, << "No", "SSL" >>) THEN "HIGH"
    ELSE "LOW"

\* CSVExportService.getThreatLevel
GetThreatLevel(threatList) ==
    IF Len(threatList) = 0 THEN "LOW"
    ELSE IF SomeIncludes(threatList, << "Invalid", "SSL" >>)
            \/ SomeIncludes(threatList, << "No", "SSL" >>) THEN "HIGH"
    ELSE IF SomeIncludes(threatList, << "expires" >>) THEN "MEDIUM"
    ELSE "LOW"

\* the texts displayThreatAssessment shows, word by word
DisplayExpiryFinding == << "SSL", "certificate", "expires", "soon" >>
DisplayRecentFinding == << "Domain", "registered", "very", "recently" >>

\* DomainInspector.displayThreatAssessment: the threats of the rendered report
DisplayThreatAssessment(domainInfo) ==
    LET expiry == PushIf(<< >>, ExpiresSoon(domainInfo), DisplayExpiryFinding)
        missing == PushIf(expiry, ~Truthy(domainInfo.ssl), NoSslFinding)
    IN  PushIf(missing, RegisteredRecently(domainInfo), DisplayRecentFinding)

\* generateIntelligenceReport, line 483: the threat table of the rendered report
DisplayThreatAssessmentCall ==
    /\ report # NotRun
    /\ flagged = NotRun
    /\ flagged' = [tag |-> "value", threats |-> DisplayThreatAssessment(report)]
    /\ UNCHANGED << pricingVars, report, threats, threatLevel, escapeVars, availVars >>
    /\ UNCHANGED orchVars

\* CSVExportService.addDomain, lines 70-71: the findings and the level of a row,
\* computed once the report has been rendered
AssessThreatsCall ==
    /\ flagged # NotRun
    /\ threatLevel = "none"
    /\ threats' = AssessThreats(report)
    /\ threatLevel' = GetThreatLevel(AssessThreats(report))
    /\ UNCHANGED << pricingVars, report, flagged, escapeVars, availVars >>
    /\ UNCHANGED orchVars

InitThreat ==
    /\ OrchIdle
    /\ PricingIdle
    /\ EscapeIdle
    /\ AvailIdle
    /\ report \in DomainInfos
    /\ threats = << >>
    /\ threatLevel = "none"
    /\ flagged = NotRun

NextThreat ==
    \/ DisplayThreatAssessmentCall
    \/ AssessThreatsCall

SpecThreat == InitThreat /\ [][NextThreat]_vars

-----------------------------------------------------------------------------
(* Properties of the threat assessment *)

NoCertificate == ~Truthy(report.ssl)
InvalidCertificate == Truthy(report.ssl) /\ report.ssl.isValid = "false"

\* C20: the threat level of a report is HIGH when it has no certificate or its
\* certificate is marked invalid; otherwise MEDIUM when the certificate has
\* fewer than 30 days left; otherwise LOW, also when the registration is recent.
C20_ThreatLevelIsMaxSeverity ==
    threatLevel # "none" =>
        threatLevel = IF NoCertificate \/ InvalidCertificate THEN "HIGH"
                      ELSE IF ExpiresSoon(report) THEN "MEDIUM"
                      ELSE "LOW"

\* an invalid certificate about to expire, on a recently registered domain:
\* rules of every severity trigger and the level is the highest
C20_Witness ==
    /\ threatLevel = "HIGH"
    /\ InvalidCertificate
    /\ ExpiresSoon(report)
    /\ RegisteredRecently(report)
    /\ Len(threats) = 3

Assessed == threatLevel # "none"

\* the findings held by the list
FindingSet == Range(threats)

CertificatePresent == Truthy(report.ssl)

\* the number of days the expiry finding of the report names
ExpiryDaysLeft == report.ssl.daysUntilExpiry.v

\* C21: the finding list holds each finding exactly when its rule applies, once,
\* and nothing else: the expiry finding iff a certificate is present with fewer
\* than 30 days left (naming that number of days), the no-certificate finding
\* iff no certificate is present, the invalid-certificate finding iff a
\* certificate is present and marked invalid, the recent-registration finding
\* iff a registration date is present and fewer than 30 days old.
C21_FindingsExact ==
    Assessed =>
        LET expiring == /\ CertificatePresent
                        /\ report.ssl.daysUntilExpiry.has
                        /\ report.ssl.daysUntilExpiry.v < 30
            recent == /\ Truthy(report.whois)
                      /\ report.whois.registrationDate.kind = "date"
                      /\ report.whois.registrationDate.daysAgo < 30
            expected ==
                (IF expiring THEN { ExpiryFinding(ExpiryDaysLeft) } ELSE {})
                    \cup (IF ~CertificatePresent THEN { NoSslFinding } ELSE {})
                    \cup (IF InvalidCertificate THEN { InvalidSslFinding } ELSE {})
                    \cup (IF recent THEN { RecentFinding } ELSE {})
        IN  /\ FindingSet = expected
            /\ Len(threats) = Cardinality(expected)

\* a certificate with exactly 30 days left on a domain registered 29 days ago:
\* the registration finding is the only one
C21_Witness ==
    /\ Assessed
    /\ CertificatePresent
    /\ report.ssl.daysUntilExpiry = Price(30)
    /\ report.ssl.isValid = "true"
    /\ threats = << RecentFinding >>

\* the position of a finding in the list (0 when it is not in it)
PositionOf(text) ==
    IF text \in FindingSet THEN CHOOSE k \in 1..Len(threats) : threats[k] = text ELSE 0

\* both findings are in the list, a before b
Precedes(a, b) == PositionOf(a) # 0 /\ PositionOf(b) # 0 => PositionOf(a) < PositionOf(b)

\* the kind of a finding in the rule order of the specification
RuleRank(text) ==
    CASE text = NoSslFinding -> 2
      [] text = InvalidSslFinding -> 3
      [] text = RecentFinding -> 4
      [] OTHER -> 1

\* C22: the findings of a report stand in the rule order: expiry, then
\* no certificate, then invalid certificate, then recent registration.
C22_FindingsInRuleOrder ==
    Assessed =>
        \A j, k \in 1..Len(threats) : j < k => RuleRank(threats[j]) < RuleRank(threats[k])

\* the order the code does keep: expiry, no certificate, recent registration,
\* invalid certificate
C22_CodeOrder ==
    Assessed =>
        /\ \A k \in 1..Len(threats) : RuleRank(threats[k]) = 1 => k = 1
        /\ Precedes(NoSslFinding, RecentFinding)
        /\ Precedes(RecentFinding, InvalidSslFinding)

-----------------------------------------------------------------------------
(* CSV field escaping: CSVExportService.escapeCSV and PricingExportService.escapeCSV *)

\* longest field value escaped
MaxFieldLen == 3

Comma == ","
Quote == "\""
Newline == "\n"

\* the characters of a field value: the three the escaping looks for, a letter and a blank
Chars == { Comma, Quote, Newline, "a", " " }

\* String.prototype.includes for one character
HasChar(value, c) == \E k \in 1..Len(value) : value[k] = c

\* value.replace(/"/g, '""')
RECURSIVE DoubleQuotes(_)
DoubleQuotes(value) ==
    IF Len(value) = 0 THEN << >>
    ELSE (IF Head(value) = Quote THEN << Quote, Quote >> ELSE << Head(value) >>)
             \o DoubleQuotes(Tail(value))

\* an escaping that wraps the value without doubling its quotes
EscapeCSVWrapOnly(value) ==
    IF Len(value) = 0 THEN << >>
    ELSE IF HasChar(value, Comma) \/ HasChar(value, Quote) \/ HasChar(value, Newline)
         THEN << Quote >> \o value \o << Quote >>
         ELSE value

\* CSVExportService.escapeCSV
EscapeCSV(value) ==
    IF Len(value) = 0 THEN << >>
    ELSE IF HasChar(value, Comma) \/ HasChar(value, Quote) \/ HasChar(value, Newline)
         THEN << Quote >> \o DoubleQuotes(value) \o << Quote >>
         ELSE value

\* PricingExportService.escapeCSV
PricingEscapeCSV(value) ==
    IF Len(value) = 0 THEN << >>
    ELSE IF HasChar(value, Comma) \/ HasChar(value, Quote) \/ HasChar(value, Newline)
         THEN << Quote >> \o DoubleQuotes(value) \o << Quote >>
         ELSE value

\* a cell of a row of the primary CSV (addDomain, lines 74-104)
CsvEscapeCall ==
    /\ escaped = NotRun
    /\ escaped' = [tag |-> "value", by |-> "csv", text |-> EscapeCSV(field)]
    /\ UNCHANGED << field, pricingVars, threatVars, availVars >>
    /\ UNCHANGED orchVars

\* a cell of a row of the pricing CSV (exportPricingCSV, lines 343-355)
PricingEscapeCall ==
    /\ escaped = NotRun
    /\ escaped' = [tag |-> "value", by |-> "pricing", text |-> PricingEscapeCSV(field)]
    /\ UNCHANGED << field, pricingVars, threatVars, availVars >>
    /\ UNCHANGED orchVars

InitEscape ==
    /\ OrchIdle
    /\ PricingIdle
    /\ ThreatIdle
    /\ AvailIdle
    /\ \E n \in 0..MaxFieldLen : field \in [1..n -> Chars]
    /\ escaped = NotRun

NextEscape ==
    \/ CsvEscapeCall
    \/ PricingEscapeCall

SpecEscape == InitEscape /\ [][NextEscape]_vars

-----------------------------------------------------------------------------
(* Properties of the escaping *)

\* reading a quoted field from position k with the characters read so far:
\* a doubled quote is one quote, a single quote closes the field, and a closed
\* field must be followed by a separator or the end of the text
RECURSIVE ReadQuoted(_, _, _)
ReadQuoted(text, k, acc) ==
    IF k > Len(text) THEN [ok |-> FALSE, value |-> acc, consumed |-> Len(text)]
    ELSE IF text[k] # Quote THEN ReadQuoted(text, k + 1, Append(acc, text[k]))
    ELSE IF k < Len(text) /\ text[k + 1] = Quote THEN ReadQuoted(text, k + 2, Append(acc, Quote))
    ELSE [ok |-> k = Len(text) \/ text[k + 1] \in { Comma, Newline },
          value |-> acc, consumed |-> k]

\* reading an unquoted field: it ends before the first separator, and may hold no quote
RECURSIVE ReadPlain(_, _, _)
ReadPlain(text, k, acc) ==
    IF k > Len(text) \/ text[k] \in { Comma, Newline }
    THEN [ok |-> TRUE, value |-> acc, consumed |-> k - 1]
    ELSE IF text[k] = Quote THEN [ok |-> FALSE, value |-> acc, consumed |-> k - 1]
    ELSE ReadPlain(text, k + 1, Append(acc, text[k]))

\* the first field of a CSV text, read by the standard rules (RFC 4180)
ReadField(text) ==
    IF Len(text) > 0 /\ text[1] = Quote THEN ReadQuoted(text, 2, << >>)
    ELSE ReadPlain(text, 1, << >>)

NeedsQuoting == \E k \in 1..Len(field) : field[k] \in { Comma, Quote, Newline }

QuoteCount == Cardinality({ k \in 1..Len(field) : field[k] = Quote })

\* C23: an escaped field is wrapped in quotes, with its quotes doubled, exactly
\* when the value holds a comma, a quote or a newline, and a standard CSV
\* reader reads the whole escaped text back as the original value.
C23_EscapeRoundTrips ==
    escaped # NotRun =>
        /\ IF NeedsQuoting
           THEN /\ Head(escaped.text) = Quote
                /\ escaped.text[Len(escaped.text)] = Quote
                /\ Len(escaped.text) = Len(field) + QuoteCount + 2
           ELSE escaped.text = field
        /\ ReadField(escaped.text)
              = [ok |-> TRUE, value |-> field, consumed |-> Len(escaped.text)]

\* a value holding a quote and a comma has been escaped
C23_Witness ==
    /\ escaped # NotRun
    /\ HasChar(field, Quote)
    /\ HasChar(field, Comma)
    /\ Len(escaped.text) = Len(field) + QuoteCount + 2

-----------------------------------------------------------------------------
(* The export sinks on their own: CSVExportService and PricingExportService
   driven by arbitrary sequences of addDomain and export calls *)

\* number of calls made on the sinks
MaxSinkCalls == 3

\* the quotes the sink entries carry: a priced offer and a failed lookup
SinkQuoteBodies ==
    { [available |-> TRUE, registrationPrice |-> Price(1), renewalPrice |-> NoPrice,
       error |-> NoError],
      [available |-> FALSE, registrationPrice |-> NoPrice, renewalPrice |-> NoPrice,
       error |-> "Live pricing via web scraping"] }

\* a DomainAvailabilityResult for domain d
PricingEntry(d, pricing) ==
    [tag |-> "value", domain |-> d, isAvailable |-> Len(pricing) > 0, pricing |-> pricing]

\* `price ? `$${price.toFixed(2)}` : 'N/A'`: an absent or zero price reads N/A
PriceCell(p) == IF TruthyPrice(p) THEN [text |-> "$", cents |-> p.v * 100] ELSE [text |-> "N/A", cents |-> 0]

\* the row of one quote of a domain entry (lines 343-355)
ProviderRow(entry, p) ==
    [kind |-> "row", domain |-> entry.domain, available |-> entry.isAvailable,
     provider |-> p.provider, registration |-> PriceCell(p.registrationPrice),
     renewal |-> PriceCell(p.renewalPrice),
     notes |-> IF p.error = NoError THEN "" ELSE p.error]

\* the row of a domain entry without quotes (lines 360-372)
PlaceholderRow(entry) ==
    [kind |-> "row", domain |-> entry.domain, available |-> entry.isAvailable,
     provider |-> "No Data", registration |-> [text |-> "N/A", cents |-> 0],
     renewal |-> [text |-> "N/A", cents |-> 0], notes |-> "No pricing providers available"]

\* an export that leaves out the domains without quotes
EntryRowsQuotesOnly(entry) ==
    [k \in 1..Len(entry.pricing) |-> ProviderRow(entry, entry.pricing[k])]

\* the rows one domain entry contributes
EntryRows(entry) ==
    IF Len(entry.pricing) > 0
    THEN [k \in 1..Len(entry.pricing) |-> ProviderRow(entry, entry.pricing[k])]
    ELSE << PlaceholderRow(entry) >>

\* the loop over this.pricingData, from entry k
RECURSIVE RowsFrom(_, _)
RowsFrom(data, k) ==
    IF k > Len(data) THEN << >> ELSE EntryRows(data[k]) \o RowsFrom(data, k + 1)

\* PricingExportService.exportPricingCSV: the lines of the file
PricingCsvRows(data) == << Header >> \o RowsFrom(data, 1)

\* the calls made so far: rows and entries added, files written
SinkCalls == GetRowCount(csvData) + GetDataCount(pricingData) + Len(files)

\* what a call on a sink leaves alone
sinkFrame == << mode, options, domains, parallelLimit, i, mainPc, runStatus, batches, delays,
                dstate, dpromise, promises, outcome, info, jsonData, faults, faultCap >>

\* csvExporter.addDomain(domainInfo)
SinkAddDomain ==
    /\ SinkCalls < MaxSinkCalls
    /\ csvData' = CsvAddDomain(csvData, SinkCalls + 1, EmptyInfo)
    /\ UNCHANGED << pricingData, files, exportFailed >>
    /\ UNCHANGED sinkFrame
    /\ UNCHANGED pureVars

\* pricingExporter.addDomain(pricingResult)
PricingSinkAddDomain ==
    /\ SinkCalls < MaxSinkCalls
    /\ \E m \in 0..MaxQuotes : \E f \in [1..m -> SinkQuoteBodies] :
          pricingData' = PricingAddDomain(pricingData, PricingEntry(SinkCalls + 1, QuoteList(f)))
    /\ UNCHANGED << csvData, files, exportFailed >>
    /\ UNCHANGED sinkFrame
    /\ UNCHANGED pureVars

\* csvExporter.exportToFile(filename): the lines are joined, the file is
\* written or the write error is thrown again
SinkExportToFile ==
    /\ SinkCalls < MaxSinkCalls
    /\ \E ok \in BOOLEAN :
          IF ok THEN /\ files' = Append(files, [sink |-> "csvWrite", content |-> csvData])
                     /\ UNCHANGED exportFailed
                ELSE /\ exportFailed' = TRUE
                     /\ UNCHANGED files
    /\ UNCHANGED << csvData, pricingData >>
    /\ UNCHANGED sinkFrame
    /\ UNCHANGED pureVars

\* pricingExporter.exportPricingCSV(filename)
SinkExportPricingCSV ==
    /\ SinkCalls < MaxSinkCalls
    /\ \E ok \in BOOLEAN :
          IF ok THEN /\ files' = Append(files, [sink |-> "pricingCsvWrite",
                                                content |-> PricingCsvRows(pricingData)])
                     /\ UNCHANGED exportFailed
                ELSE /\ exportFailed' = TRUE
                     /\ UNCHANGED files
    /\ UNCHANGED << csvData, pricingData >>
    /\ UNCHANGED sinkFrame
    /\ UNCHANGED pureVars

\* both exporters constructed, nothing added yet
InitSink ==
    /\ mode = "none"
    /\ options = [quick |-> FALSE, subdomains |-> FALSE, checkPricing |-> TRUE,
                  exportCsv |-> TRUE, exportJson |-> FALSE]
    /\ domains = << >>
    /\ parallelLimit = 1
    /\ faultCap = 0
    /\ InitCommon
    /\ PureIdle

NextSink ==
    \/ SinkAddDomain
    \/ PricingSinkAddDomain
    \/ SinkExportToFile
    \/ SinkExportPricingCSV

SpecSink == InitSink /\ [][NextSink]_vars

-----------------------------------------------------------------------------
(* Properties of the export sinks *)

\* the number of rows the first n entries of the pricing sink are to give
RECURSIVE RowsBefore(_)
RowsBefore(n) ==
    IF n = 0 THEN 0
    ELSE RowsBefore(n - 1)
             + (IF Len(pricingData[n].pricing) > 0 THEN Len(pricingData[n].pricing) ELSE 1)

\* the file lines after the header hold, for each entry in the order added, its
\* quotes in the order listed, or one placeholder line when it has none
RowsMatchEntries(content) ==
    /\ content[1] = Header
    /\ Len(content) = 1 + RowsBefore(Len(pricingData))
    /\ \A e \in 1..Len(pricingData) :
          LET entry == pricingData[e]
              at == 1 + RowsBefore(e - 1)
          IN  IF Len(entry.pricing) > 0
              THEN \A q \in 1..Len(entry.pricing) :
                      /\ content[at + q].domain = entry.domain
                      /\ content[at + q].provider = entry.pricing[q].provider
              ELSE /\ content[at + 1].domain = entry.domain
                   /\ content[at + 1].provider = "No Data"

\* the file a step has just written
LastFile == files'[Len(files')]

\* C24: a pricing CSV, when written, holds after its header exactly one row per
\* (domain, provider) quote of every entry with quotes and one placeholder row
\* per entry without, in the order the entries were added and the quotes listed.
C24_PricingCsvRows ==
    [][ (Len(files') = Len(files) + 1 /\ LastFile.sink = "pricingCsvWrite")
            => RowsMatchEntries(LastFile.content) ]_vars

\* a pricing CSV written for an entry without quotes and an entry with two
C24_Witness ==
    /\ Len(pricingData) = 2
    /\ \E a, b \in 1..2 : Len(pricingData[a].pricing) = 0 /\ Len(pricingData[b].pricing) = 2
    /\ \E k \in 1..Len(files) :
          /\ files[k].sink = "pricingCsvWrite"
          /\ Len(files[k].content) = 4

\* seq is old with exactly one element added at its end
AppendedOne(old, seq) == Len(seq) = Len(old) + 1 /\ SubSeq(seq, 1, Len(old)) = old

\* C30: the collection of a sink is append-only and ordered: the header of the
\* CSV sink stays first, a step that changes a collection appends exactly one
\* entry at its end (one whole row, in one step) and leaves the earlier
\* entries as they were, and a step that writes the file of a sink leaves the
\* collection of that sink as it was.
C30_SinksAppendOnly ==
    [][ /\ (csvData # << >>) => (csvData[1] = Header /\ csvData'[1] = Header)
        /\ (csvData' # csvData) =>
              /\ AppendedOne(csvData, csvData')
              /\ csvData'[Len(csvData')].kind = "row"
        /\ (pricingData' # pricingData) => AppendedOne(pricingData, pricingData')
        /\ (files' # files) =>
              /\ AppendedOne(files, files')
              /\ LastFile.sink = "csvWrite" => csvData' = csvData
              /\ LastFile.sink \in { "pricingCsvWrite", "pricingJsonWrite" } =>
                    pricingData' = pricingData ]_vars

\* two rows and an export in between: the file holds the first row only
C30_Witness ==
    /\ GetRowCount(csvData) = 2
    /\ \E k \in 1..Len(files) : files[k].sink = "csvWrite" /\ Len(files[k].content) = 2

-----------------------------------------------------------------------------
(* Frame properties of the report *)

Running(d) == dstate[d] \in { "gathering", "rendered" }

\* the step is one of the orchestration of domain d
StepOf(d) == dstate'[d] # dstate[d] \/ promises'[d] # promises[d]

SinksUnchanged == csvData' = csvData /\ jsonData' = jsonData /\ pricingData' = pricingData

\* C25: a per-domain orchestration writes to its own report only: while another
\* orchestration runs concurrently, a step of an orchestration changes neither
\* the report of another domain nor state the other orchestration writes too
\* (the collections of the export sinks).
C25_NoSharedState ==
    [][ \A d \in DomainIds :
            (Running(d) /\ StepOf(d) /\ \E e \in DomainIds \ { d } : Running(e)) =>
                /\ \A e \in DomainIds \ { d } : info'[e] = info[e]
                /\ SinksUnchanged ]_vars

\* what does hold of the code: the report and the outcomes of a domain change
\* only while its own orchestration runs and one domain at a time, and a step of an
\* orchestration adds nothing to a sink but rows of its own domain
C25_OwnReportOnly ==
    [][ \A d \in DomainIds :
            /\ (info'[d] # info[d] \/ outcome'[d] # outcome[d])
                   => /\ Running(d)
                      /\ \A e \in DomainIds \ { d } : info'[e] = info[e] /\ outcome'[e] = outcome[e]
            /\ (Running(d) /\ StepOf(d) /\ csvData' # csvData)
                   => (AppendedOne(csvData, csvData') /\ csvData'[Len(csvData')].domain = d) ]_vars

\* the sources investigate and investigateSingle are to call for the options
\* have all been started for domain d
AllActiveStarted(d) == Active(options) \subseteq DispatchedSet(d)

SomeSettled(d) == \E k \in 1..Len(promises[d]) : promises[d][k].status # "pending"

\* C27: within one orchestration every active source is started before any is
\* waited on: in no state has a source of a domain settled, or the results
\* been collected, while another active source of that domain is not started.
C27_AllStartedBeforeAwait ==
    \A d \in DomainIds : (SomeSettled(d) \/ Collected(d)) => AllActiveStarted(d)

\* the same for the sources the entry point in use puts in its promise list
C27_ListedStartedBeforeAwait ==
    \A d \in DomainIds :
        dstate[d] # "idle" => DispatchedSet(d) = Range(PromisesOf(mode, options))

InPricing(d) == \E k \in 1..Len(pricingData) : pricingData[k] = Present("pricing", d)

AddedToSomeSink(d) == InCsv(d) \/ InJson(d) \/ InPricing(d)

\* C28: per domain, all active sources settle, then the report is built and
\* rendered, then it is added to the sinks: a collected report has an outcome
\* for every active source and no pending promise, and a report in a sink has
\* been collected. In single-domain mode the file of a sink is written right
\* after the report is added to it, before the next sink is touched.
C28_StepOrder ==
    /\ \A d \in DomainIds :
          /\ Collected(d) =>
                /\ AllSettled(promises[d])
                /\ \A s \in Active(options) : outcome[d][s] # NoOutcome
          /\ AddedToSomeSink(d) => Collected(d)
    /\ mode = "single" =>
          /\ InCsv(1) => (dstate[1] = "csvWrite" \/ Written("csvWrite") \/ exportFailed)
          /\ InJson(1) =>
                /\ dstate[1] = "jsonWrite" \/ Written("jsonWrite") \/ exportFailed
                /\ options.exportCsv => Written("csvWrite")
          /\ InPricing(1) =>
                /\ dstate[1] = "pricingCsvWrite" \/ Written("pricingCsvWrite") \/ exportFailed
                /\ options.exportCsv => Written("csvWrite")
                /\ options.exportJson => Written("jsonWrite")
          /\ Written("pricingJsonWrite") => Written("pricingCsvWrite")

\* C28 with the sources the entry point in use puts in its promise list
C28_StepOrderOfListed ==
    (mode = "batch" => ~options.checkPricing) => C28_StepOrder

\* C29: with the quick flag set the port scan is never started, the network
\* service is never called and the network slot of the report stays unset.
C29_QuickSkipsNetwork ==
    options.quick =>
        \A d \in DomainIds :
            /\ "network" \notin DispatchedSet(d)
            /\ outcome[d]["network"] = NoOutcome
            /\ info[d]["network"] = Undefined

\* a quick run with subdomains has gone through: the fourth result was read
\* into the subdomains slot and the network slot is unset
C29_Witness ==
    /\ options.quick /\ options.subdomains
    /\ \E d \in DomainIds :
          /\ dstate[d] = "done"
          /\ Truthy(info[d]["subdomains"])
          /\ info[d]["network"] = Undefined

-----------------------------------------------------------------------------
(* Order independence of the report *)

\* the report as a function of the entry point, the configuration and what each
\* service call did, with no reference to the promise list
ReportOf(m, opt, d) ==
    [s \in SourceSet |-> IF s \in Range(PromisesOf(m, opt)) THEN OwnOutcome(d, s) ELSE Undefined]

\* C31: the report depends on the configuration and on the outcome of each source
\* only, not on the order in which the sources complete: whatever the order of
\* settling, each result sits at the list position of its own source, and the
\* report the fan-in builds is the one determined by the outcomes.
C31_ReportIndependentOfOrder ==
    \A d \in DomainIds :
        /\ \A k \in 1..Len(promises[d]) :
              /\ promises[d][k].src = PromisesOf(mode, options)[k]
              /\ promises[d][k].status # "pending" =>
                    promises[d][k].value = OwnOutcome(d, promises[d][k].src)
        /\ Collected(d) => info[d] = ReportOf(mode, options, d)

\* a report built from six sources of which the first and the third faulted
C31_Witness ==
    \E d \in DomainIds :
        /\ Collected(d)
        /\ Len(promises[d]) = 6
        /\ outcome[d]["whois"].kind = "fault"
        /\ outcome[d]["ssl"].kind = "fault"
        /\ info[d]["dns"] = Present("dns", d)
        /\ info[d]["pricing"] = Present("pricing", d)
        /\ info[d]["ssl"] = Null

\* the last source of the list has settled while the first is still pending
C31_OutOfOrder ==
    \E d \in DomainIds :
        /\ Len(promises[d]) = 6
        /\ promises[d][1].status = "pending"
        /\ promises[d][6].status = "fulfilled"

-----------------------------------------------------------------------------
(* Termination of the batch scheduler *)

\* every source call eventually settles, every timer fires, every file write
\* settles, and the event loop runs every continuation that is ready
Fairness ==
    /\ WF_vars(CallInvestigateMultiple)
    /\ WF_vars(SourceSettle)
    /\ WF_vars(CollectResults)
    /\ WF_vars(AddDomainToSinks)
    /\ WF_vars(BatchSettles)
    /\ WF_vars(DelayElapses)
    /\ WF_vars(BatchWriteSettles)

\* the scheduler with the CSV sink configured
InitBatchLive ==
    /\ InitBatch
    /\ options.exportCsv /\ ~options.exportJson

SpecBatchLive == InitBatchLive /\ [][NextBatch]_vars /\ Fairness

\* the promise investigateMultiple returned has settled
Terminated == runStatus # "pending"

\* how often the loop has handed position d of the list to investigateSingle
TimesDispatched(d) ==
    Cardinality({ bk \in (1..Len(batches)) \X (1..Len(domains)) :
                     bk[2] \in 1..Len(batches[bk[1]]) /\ batches[bk[1]][bk[2]] = d })

\* C32: for every list and every limit L >= 1, when every source call settles,
\* investigateMultiple terminates, no position of the list is ever dispatched
\* twice, and at termination every position has been dispatched once.
C32_TerminatesEveryDomainOnce ==
    /\ <>Terminated
    /\ [](\A d \in DomainIds : TimesDispatched(d) <= 1)
    /\ [](Terminated => \A d \in DomainIds : TimesDispatched(d) = 1 /\ dstate[d] # "idle")

\* a list of MaxDomains domains went through in more than one batch, the last
\* batch partial or full, and the run has ended
C32_Witness ==
    /\ Terminated
    /\ Len(domains) = MaxDomains
    /\ Len(batches) >= 2
    /\ \A d \in DomainIds : TimesDispatched(d) = 1

-----------------------------------------------------------------------------
(* The batch scheduler with a limit of zero *)

\* number of pacing delays after which the exploration of the endless loop stops
MaxDelays == 6

\* investigateMultiple(domains, 0) with a non-empty list
InitZero ==
    /\ mode = "batch"
    /\ options \in OptionSets
    /\ \E n \in 1..MaxDomains : domains = DomainList(n)
    /\ parallelLimit = 0
    /\ faultCap = MaxFaults
    /\ InitCommon
    /\ PureIdle

\* the barrier of a batch passes, while the exploration goes on
BatchSettlesCapped == delays < MaxDelays /\ BatchSettles

NextZero ==
    \/ CallInvestigateMultiple
    \/ BatchSettlesCapped
    \/ DelayElapses

SpecZero == InitZero /\ [][NextZero]_vars

\* C33: with a non-empty list and a limit of 0 the loop never advances: the index
\* stays 0, every batch is empty and is followed by a pacing delay, the loop can
\* always take its next step, no domain is dispatched, and the code after the
\* loop (the consolidated exports, the return) is never reached.
C33_ZeroLimitNeverAdvances ==
    (parallelLimit = 0 /\ Len(domains) > 0) =>
        /\ i = 0
        /\ mainPc \in { "init", "await", "delay" }
        /\ runStatus = "pending"
        /\ \A k \in 1..Len(batches) : batches[k] = << >>
        /\ \A d \in DomainIds : dstate[d] = "idle" /\ promises[d] = << >>
        /\ files = << >>
        /\ mainPc = "await" => (Len(batches) = delays + 1 /\ ENABLED BatchSettles)
        /\ mainPc = "delay" => (Len(batches) = delays /\ ENABLED DelayElapses)

\* the loop has gone round several times
C33_Witness ==
    /\ parallelLimit = 0
    /\ Len(domains) = 2
    /\ mainPc = "delay"
    /\ delays >= 3
    /\ Len(batches) >= 3

-----------------------------------------------------------------------------
(* Row order across batches *)

\* the number of the batch that dispatched domain d (0 when none has)
BatchOf(d) ==
    IF \E b \in 1..Len(batches) : d \in Range(batches[b])
    THEN CHOOSE b \in 1..Len(batches) : d \in Range(batches[b])
    ELSE 0

\* C34: in batch mode every row a domain of batch k added to the CSV sink stands
\* before every row a domain of batch k+1 added, for every interleaving; each row
\* belongs to a domain some batch has dispatched.
C34_RowsInBatchOrder ==
    mode = "batch" =>
        \A p \in CsvRows : \A q \in CsvRows :
            /\ BatchOf(csvData[p].domain) >= 1
            /\ BatchOf(csvData[p].domain) < BatchOf(csvData[q].domain) => p < q

\* the rows of the first batch stand in reverse input order, the row of the
\* second batch after them
C34_Witness ==
    /\ mode = "batch"
    /\ batches = << << 1, 2 >>, << 3 >> >>
    /\ Len(csvData) = 4
    /\ csvData[2].domain = 2 /\ csvData[3].domain = 1 /\ csvData[4].domain = 3

-----------------------------------------------------------------------------
(* Availability and provider pricing: DomainPricingService *)

\* a JavaScript boolean as a value
Bool(b) == [tag |-> "boolean", v |-> b]

Fulfilled(v) == [status |-> "fulfilled", value |-> v]
Rejected == [status |-> "rejected", value |-> Null]

\* what Porkbun's checkDomain call does: SUCCESS with avail 'yes', SUCCESS with
\* another avail, a response without verdict, or a failed request
PorkbunAnswers == { "yes", "no", "noVerdict", "fault" }

\* what the name resolution does: a failed request, a response without body, or a
\* response with a Status (3 is NXDOMAIN) and an Answer (missing, empty, records)
DnsAnswers ==
    { [kind |-> "fault", status |-> 0, answer |-> "undefined"],
      [kind |-> "nodata", status |-> 0, answer |-> "undefined"] }
        \cup { [kind |-> "response", status |-> st, answer |-> a] :
                 st \in { 0, 3 }, a \in { "undefined", "empty", "records" } }

Probes == [porkbun : PorkbunAnswers, dns : DnsAnswers]

\* checkPorkbunAvailability: a boolean on a verdict, null otherwise; the catch
\* block turns a failed request into null
CheckPorkbunAvailability(answer) ==
    CASE answer = "yes" -> Bool(TRUE)
      [] answer = "no" -> Bool(FALSE)
      [] OTHER -> Null

\* Status === 3 || !Answer || Answer.length === 0
DnsSaysAvailable(dns) ==
    (dns.kind = "response" /\ dns.status = 3) \/ dns.answer = "undefined" \/ dns.answer = "empty"

\* an availability check that reports a domain as taken when the lookups fail
QuickAvailabilityCheckFailClosed(pr) ==
    IF CheckPorkbunAvailability(pr.porkbun) # Null
    THEN Fulfilled(CheckPorkbunAvailability(pr.porkbun))
    ELSE IF pr.dns.kind = "fault" THEN Fulfilled(Bool(FALSE))
    ELSE Fulfilled(Bool(DnsSaysAvailable(pr.dns)))

\* quickAvailabilityCheck: the provider lookup first, then the name resolution;
\* the catch block answers true
QuickAvailabilityCheck(pr) ==
    IF CheckPorkbunAvailability(pr.porkbun) # Null
    THEN Fulfilled(CheckPorkbunAvailability(pr.porkbun))
    ELSE IF pr.dns.kind = "fault" THEN Fulfilled(Bool(TRUE))
    ELSE Fulfilled(Bool(DnsSaysAvailable(pr.dns)))

\* { registration, renewal } as a price lookup returns it (null prices are absent)
PriceAnswer(reg, ren) == [tag |-> "value", registration |-> reg, renewal |-> ren]

\* what the lookups of the k-th provider may return; null stands for no data
\* and for a failed request, which the lookups catch
LiveAnswers(k) ==
    CASE k = 1 -> { Null, PriceAnswer(NoPrice, NoPrice), PriceAnswer(Price(1), Price(1)) }
      [] k = 2 -> { Null }
      [] k = 3 -> { Null } \cup { PriceAnswer(reg, ren) : reg \in { NoPrice, Price(1) },
                                                          ren \in { NoPrice, Price(1) } }
      [] k = 4 -> { Null, PriceAnswer(Price(1), NoPrice) }
      [] OTHER -> { Null, PriceAnswer(Price(1), NoPrice), PriceAnswer(Price(1), Price(1)) }

ScrapedAnswers(k) ==
    CASE k = 2 -> { Null, PriceAnswer(Price(1), NoPrice), PriceAnswer(Price(1), Price(1)) }
      [] k = 5 -> { Null, PriceAnswer(Price(1), NoPrice) }
      [] OTHER -> { Null }

ProviderAnswers(k) == [live : LiveAnswers(k), scraped : ScrapedAnswers(k)]

FailedText == "Failed to get live pricing"
RejectedText == "Failed to check pricing"
ScrapedText == "Live pricing via web scraping"

\* the quote of a catch block
FailedQuote(k, text) ==
    DomainPricing(k, [available |-> FALSE, registrationPrice |-> NoPrice,
                      renewalPrice |-> NoPrice, error |-> text])

PricedQuote(k, a, text) ==
    DomainPricing(k, [available |-> TRUE, registrationPrice |-> a.registration,
                      renewalPrice |-> a.renewal, error |-> text])

\* checkCloudflare and checkPorkbun: no data or no registration price throws
CheckLiveOnly(k, a) ==
    IF a.live = Null \/ ~a.live.registration.has
    THEN FailedQuote(k, FailedText)
    ELSE PricedQuote(k, a.live, NoError)

\* checkGoDaddy
CheckGoDaddy(k, a) ==
    IF a.live # Null THEN PricedQuote(k, a.live, NoError) ELSE FailedQuote(k, FailedText)

\* checkNamecheap and checkNamecom: the live lookup, then the scraped page
CheckWithScraping(k, a) ==
    IF a.live # Null THEN PricedQuote(k, a.live, NoError)
    ELSE IF a.scraped # Null THEN PricedQuote(k, a.scraped, ScrapedText)
    ELSE FailedQuote(k, FailedText)

\* the k-th promise of pricingPromises, settled: every check catches its errors
CheckProvider(k, a) ==
    CASE k \in { 1, 3 } -> Fulfilled(CheckLiveOnly(k, a))
      [] k = 4 -> Fulfilled(CheckGoDaddy(k, a))
      [] OTHER -> Fulfilled(CheckWithScraping(k, a))

\* a result list that keeps the quotes of the providers that answered only
PricingOfAnswered(results) ==
    SelectSeq([k \in 1..Len(results) |->
                  IF results[k].status = "fulfilled" THEN results[k].value
                  ELSE FailedQuote(k, RejectedText)],
              LAMBDA q : q.available)

\* pricingResults.map(...).filter(pricing => pricing !== null)
PricingOf(results) ==
    SelectSeq([k \in 1..Len(results) |->
                  IF results[k].status = "fulfilled" THEN results[k].value
                  ELSE FailedQuote(k, RejectedText)],
              LAMBDA q : q # Null)

PendingCheck == [status |-> "pending", value |-> Undefined]

\* checkAvailabilityAndPricing up to the settling of quickAvailabilityCheck and,
\* for a domain reported available, on to `await Promise.allSettled(pricingPromises)`
AvailabilityCheckSettles ==
    /\ probe # NotRun
    /\ availability = NotRun
    /\ LET check == QuickAvailabilityCheck(probe) IN
        IF check.status = "rejected"
        THEN /\ availability' = [tag |-> "rejected", isAvailable |-> FALSE, pricing |-> << >>]
             /\ UNCHANGED pricingResults
        ELSE IF check.value.v
        THEN /\ availability' = [tag |-> "pending", isAvailable |-> TRUE, pricing |-> << >>]
             /\ pricingResults' = [k \in 1..Len(ProviderNames) |-> PendingCheck]
        ELSE /\ availability' = [tag |-> "value", isAvailable |-> FALSE, pricing |-> << >>]
             /\ UNCHANGED pricingResults
    /\ UNCHANGED << probe, pricingVars, threatVars, escapeVars >>
    /\ UNCHANGED orchVars

\* the check of the k-th provider settles, its lookups answering a
ProviderSettles(k, a) ==
    /\ availability.tag = "pending"
    /\ pricingResults[k].status = "pending"
    /\ pricingResults' = [pricingResults EXCEPT ![k] =
                             [status |-> CheckProvider(k, a).status,
                              value |-> CheckProvider(k, a).value, answer |-> a]]
    /\ UNCHANGED << probe, availability, pricingVars, threatVars, escapeVars >>
    /\ UNCHANGED orchVars

ProviderSettle ==
    \E k \in 1..Len(pricingResults) : \E a \in ProviderAnswers(k) : ProviderSettles(k, a)

\* continuation of `await Promise.allSettled(pricingPromises)`: the result is returned
PricingCollected ==
    /\ availability.tag = "pending"
    /\ AllSettled(pricingResults)
    /\ availability' = [availability EXCEPT !.tag = "value", !.pricing = PricingOf(pricingResults)]
    /\ UNCHANGED << probe, pricingResults, pricingVars, threatVars, escapeVars >>
    /\ UNCHANGED orchVars

InitAvailability ==
    /\ OrchIdle
    /\ PricingIdle
    /\ ThreatIdle
    /\ EscapeIdle
    /\ probe \in Probes
    /\ pricingResults = << >>
    /\ availability = NotRun

NextAvailability ==
    \/ AvailabilityCheckSettles
    \/ ProviderSettle
    \/ PricingCollected

SpecAvailability == InitAvailability /\ [][NextAvailability]_vars

-----------------------------------------------------------------------------
(* Properties of the availability result (specification SpecAvailability) *)

\* checkAvailabilityAndPricing has returned
Returned == availability.tag = "value"

\* no lookup of the k-th provider came back with data
NoAnswerFrom(k) == pricingResults[k].answer.live = Null /\ pricingResults[k].answer.scraped = Null

\* C35: the result has no quote when the domain is reported not available, and
\* then no provider was queried; otherwise it has five quotes, the k-th by the
\* k-th of Cloudflare, Namecheap, Porkbun, GoDaddy, Name.com, and a provider
\* whose lookups failed has a quote with available false and an error text; the
\* call itself never rejects.
C35_QuotesPerProvider ==
    /\ availability.tag # "rejected"
    /\ availability.tag = "pending" => availability.isAvailable
    /\ Returned =>
          IF availability.isAvailable
          THEN /\ Len(availability.pricing) = 5
               /\ \A k \in 1..5 :
                     /\ availability.pricing[k].provider
                            = << "Cloudflare", "Namecheap", "Porkbun", "GoDaddy", "Name.com" >>[k]
                     /\ NoAnswerFrom(k) =>
                           /\ ~availability.pricing[k].available
                           /\ availability.pricing[k].error # NoError
          ELSE /\ availability.pricing = << >>
               /\ pricingResults = << >>

\* an available domain for which the second and the fourth provider failed and
\* the others answered
C35_Witness ==
    /\ Returned
    /\ availability.isAvailable
    /\ NoAnswerFrom(2) /\ NoAnswerFrom(4)
    /\ availability.pricing[1].available
    /\ availability.pricing[3].available
    /\ availability.pricing[5].error = ScrapedText

\* the verdict of the provider lookup, when it gave one
Definitive == probe.porkbun \in { "yes", "no" }

\* C36: the availability check never faults and answers in a fixed precedence:
\* the verdict of the provider lookup when there is one; otherwise that of the
\* name resolution (available iff NXDOMAIN or no answer records); and available
\* when the lookups fail, so that the providers are then queried.
C36_ProbePrecedence ==
    availability # NotRun =>
        /\ availability.tag # "rejected"
        /\ Definitive => (availability.isAvailable <=> probe.porkbun = "yes")
        /\ (~Definitive /\ probe.dns.kind # "fault") =>
              (availability.isAvailable <=>
                  (probe.dns.status = 3 \/ probe.dns.answer # "records"))
        /\ (~Definitive /\ probe.dns.kind = "fault") =>
              (availability.isAvailable /\ Len(pricingResults) = 5)

\* both lookups failed and the providers have been queried
C36_Witness ==
    /\ probe # NotRun
    /\ probe.porkbun = "fault" /\ probe.dns.kind = "fault"
    /\ Returned
    /\ Len(availability.pricing) = 5

-----------------------------------------------------------------------------
(* The rendered threat assessment against the exported findings *)

\* the four threat conditions and a word sequence each of their texts contains
Conditions == { "expiry", "noCertificate", "invalidCertificate", "recentRegistration" }

KeyOf(c) ==
    CASE c = "expiry" -> << "expires" >>
      [] c = "noCertificate" -> << "No", "SSL" >>
      [] c = "invalidCertificate" -> << "Invalid" >>
      [] OTHER -> << "registered" >>

\* the conditions a list of threat texts names
ConditionsIn(threatList) == { c \in Conditions : SomeIncludes(threatList, KeyOf(c)) }

\* C37: for every report the conditions the rendered threat assessment flags are
\* the conditions of the findings exported to the CSV row of that report.
C37_DisplayMatchesExport ==
    Assessed => ConditionsIn(flagged.threats) = ConditionsIn(threats)

\* the two lists agree on every condition but the invalid certificate, which
\* the rendered assessment never flags
C37_AgreeButInvalidCertificate ==
    Assessed =>
        /\ ConditionsIn(flagged.threats) = ConditionsIn(threats) \ { "invalidCertificate" }
        /\ "invalidCertificate" \in ConditionsIn(threats) <=> InvalidCertificate

-----------------------------------------------------------------------------
(* The three views of one quote list: rendered report, CSV row, JSON analysis *)

\* the quote list has gone through the display, the CSV row and the analysis
ThreeViews == displayed # NotRun /\ CsvProcessed /\ Analysed /\ Len(quotes) > 0

\* the provider a best-deal entry names ("" when there is none)
ShownProvider(deal) == IF deal = Null THEN "" ELSE deal.provider

\* the providers whose quotes the CSV row lists as valid
CsvValidProviders == { csvPricing.allPricing[k].provider : k \in 1..Len(csvPricing.allPricing) }

\* C38: for every quote list of an available domain the rendered best deals, the
\* CSV row and the JSON analysis name the same provider as cheapest registration
\* and the same provider as cheapest renewal, and they agree on the valid quotes.
C38_ThreeViewsAgree ==
    ThreeViews =>
        /\ ShownProvider(displayed.cheapestReg) = csvPricing.bestRegProvider
        /\ ShownProvider(displayed.cheapestReg) = ShownProvider(analysis.cheapestRegistration)
        /\ ShownProvider(displayed.cheapestRenewal) = csvPricing.bestRenewalProvider
        /\ ShownProvider(displayed.cheapestRenewal) = ShownProvider(analysis.cheapestRenewal)
        /\ Range(displayed.table) = CsvValidProviders
        /\ Len(displayed.table) = analysis.providerCount

\* the CSV row and the JSON analysis agree with each other on every list
C38_CsvAndJsonAgree ==
    ThreeViews =>
        /\ csvPricing.bestRegProvider = ShownProvider(analysis.cheapestRegistration)
        /\ csvPricing.bestRenewalProvider = ShownProvider(analysis.cheapestRenewal)
        /\ Cardinality(CsvValidProviders) = analysis.providerCount

\* every quote is free of error text and every available quote carries a usable
\* registration price
CleanQuotes ==
    \A k \in 1..Len(quotes) :
        /\ quotes[k].error = NoError
        /\ quotes[k].available => TruthyPrice(quotes[k].registrationPrice)

\* on such lists the three views agree on the valid quotes and on the cheapest
\* registration (not on the cheapest renewal, where equal prices are broken by
\* registration order in the display and by input order in the exports)
C38_AgreeOnCleanLists ==
    (ThreeViews /\ CleanQuotes) =>
        /\ ShownProvider(displayed.cheapestReg) = csvPricing.bestRegProvider
        /\ Range(displayed.table) = CsvValidProviders
        /\ Len(displayed.table) = analysis.providerCount

-----------------------------------------------------------------------------
(* The consolidated pricing export of a batch run *)

\* the content of the file written at the stage, when there is one
FileOf(stage) == files[CHOOSE k \in 1..Len(files) : files[k].sink = stage].content

\* the file written at the stage holds an entry for every processed domain
CoversProcessed(stage) ==
    \A d \in Processed :
        \E k \in 1..Len(FileOf(stage)) : FileOf(stage)[k] = Present("pricing", d)

\* C39: a batch run with checkPricing set that has processed at least one domain
\* and has ended has written the pricing CSV and the pricing JSON, after the
\* last batch, each covering every processed domain.
C39_BatchPricingExport ==
    (mode = "batch" /\ options.checkPricing /\ RunEnded /\ Processed # {}) =>
        \A stage \in { "pricingCsvWrite", "pricingJsonWrite" } :
            /\ Written(stage)
            /\ CoversProcessed(stage)

\* what the code does: in batch mode the pricing sink stays empty and neither
\* pricing file is ever written, while the single-domain entry point writes both
\* for a domain whose pricing was gathered
C39_BatchNeverWritesPricing ==
    /\ mode = "batch" =>
          /\ pricingData = << >>
          /\ ~Written("pricingCsvWrite") /\ ~Written("pricingJsonWrite")
    /\ (mode = "single" /\ options.checkPricing /\ RunEnded /\ Processed # {}
            /\ Truthy(info[1]["pricing"])) =>
          \A stage \in { "pricingCsvWrite", "pricingJsonWrite" } :
              Written(stage) /\ CoversProcessed(stage)

====
